---- MODULE Spec2Model ----
(***************************************************************************)
(* UwbEventManager: the JNI layer that turns the native UWB stack's        *)
(* notifications into managed objects and hands them to the registered     *)
(* listener.  Two copies of the manager exist, service/uci/jni (the        *)
(* active copy) and service/uci/jni_unused (the expanded copy); the        *)
(* variable "copy" says which of the two builds a behaviour is about.      *)
(*                                                                         *)
(* A managed reference (jobject, jbyteArray, ...) is a record whose field  *)
(* isNull tells a null reference from an object; a jmethodID, jclass or    *)
(* JavaVM* field of the manager is TRUE when it is non-NULL.               *)
(***************************************************************************)
EXTENDS Integers, Sequences, FiniteSets, TLC

(***************************************************************************)
(* Bounds of the model.                                                    *)
(***************************************************************************)
\* the largest no_of_measurements the native stack hands over in Spec
MaxMeasurements == 2

(***************************************************************************)
(* Program constants: UwbJniInternal.h                                     *)
(***************************************************************************)
TDOA_TX_TIMESTAMP_OFFSET == 255
TDOA_TX_TIMESTAMP_OFFSET_MASK == 6
TDOA_RX_TIMESTAMP_OFFSET == 255
TDOA_RX_TIMESTAMP_OFFSET_MASK == 24
TDOA_ANCHOR_LOC_OFFSET == 255
TDOA_ANCHOR_LOC_OFFSET_MASK == 96
TDOA_ACTIVE_RR_OFFSET == 4080
TDOA_ACTIVE_RR_OFFSET_MASK == 1920
TDOA_TX_TIMESTAMP_40BITS == 0
TDOA_TX_TIMESTAMP_64BITS == 2
TDOA_RX_TIMESTAMP_40BITS == 0
TDOA_RX_TIMESTAMP_64BITS == 8
TDOA_ANCHOR_LOC_NOT_INCLUDED == 0
TDOA_ANCHOR_LOC_IN_RELATIVE_SYSTEM == 64
TDOA_ANCHOR_LOC_IN_WGS84_SYSTEM == 32
MAC_SHORT_ADD_LEN == 2
MAC_EXT_ADD_LEN == 8
TDOA_TIMESTAMP_LEN_40BITS == 5
TDOA_TIMESTAMP_LEN_64BITS == 8
TDOA_ANCHOR_LOC_LEN_10BYTES == 10
TDOA_ANCHOR_LOC_LEN_12BYTES == 12
TDOA_ACTIVE_RR_INDEX_POSITION == 7

(***************************************************************************)
(* Program constants of the UCI headers (uwa_api.h, uci_defs.h), which the *)
(* handlers only use.                                                      *)
(***************************************************************************)
MEASUREMENT_TYPE_ONEWAY == 0
MEASUREMENT_TYPE_TWOWAY == 1
MEASUREMENT_TYPE_DLTDOA == 2
MEASUREMENT_TYPE_OWR_WITH_AOA == 3
SHORT_MAC_ADDRESS == 0
EXTENDED_MAC_ADDRESS == 1
MAX_NUM_CONTROLLEES == 8

\* widths of the native integer types
UINT8_RANGE == 0..255
UINT16_RANGE == 0..65535

(***************************************************************************)
(* Integer helpers: C's & and >> on unsigned values.                       *)
(***************************************************************************)
RECURSIVE BitAnd(_, _)
BitAnd(x, y) ==
  IF x = 0 \/ y = 0 THEN 0
  ELSE (x % 2) * (y % 2) + 2 * BitAnd(x \div 2, y \div 2)

RECURSIVE Pow2(_)
Pow2(n) == IF n = 0 THEN 1 ELSE 2 * Pow2(n - 1)

ShiftRight(x, n) == x \div Pow2(n)

(***************************************************************************)
(* The managed runtime, as far as the handlers use it.                     *)
(***************************************************************************)
\* a null reference (NULL jobject / jbyteArray / jobjectArray)
NullRef == [isNull |-> TRUE]

\* byte j (from 1) of the native buffer that record/payload "seed" carries in
\* field number "field": a stand-in for the bytes the native stack filled in
NativeByte(seed, field, j) == (seed * 16 + field * 3 + j) % 256

\* the first n bytes of that buffer
RECURSIVE NativeBytes(_, _, _)
NativeBytes(seed, field, n) ==
  IF n = 0 THEN <<>>
  ELSE Append(NativeBytes(seed, field, n - 1), NativeByte(seed, field, n))

\* env->NewByteArray(n) followed by env->SetByteArrayRegion(a, 0, n, src):
\* a managed byte array holding the first n bytes of the native buffer
ByteArrayOf(seed, field, n) ==
  [isNull |-> FALSE, elems |-> NativeBytes(seed, field, n)]

\* env->NewByteArray(n) whose SetByteArrayRegion got a NULL source: n bytes
\* that are not the payload's
GarbageArray(n, g) == [isNull |-> FALSE, elems |-> [j \in 1..n |-> g]]

\* what an out-of-bounds or NULL read may deliver
GarbageValues == {0, 170}

(***************************************************************************)
(* State.                                                                  *)
(*   copy      which build of the manager: "jni" or "jni_unused"           *)
(*   mVm, mClass, mObject, mClasses, mMethods: the fields of the singleton *)
(*   arg .. outcome: what the last call of an entry point was handed and   *)
(*             what it did, as the native caller and the listener see it   *)
(*   pc        "idle" while the native side is about to call the manager,  *)
(*             "returned" when the call has ended                          *)
(*   pending   an exception is pending in the env of the calling thread    *)
(*   nth       the number of calls the native side has made since the      *)
(*             listener's record calls was last emptied                    *)
(*   threads   where each native thread stands inside the entry point it   *)
(*             runs and what it has read so far, when calls of several     *)
(*             threads interleave                                          *)
(***************************************************************************)
VARIABLES copy, mVm, mClass, mObject, mClasses, mMethods,
          arg, env, calls, logs, nNew, managed, outcome, pc, pending, nth,
          threads

mgrVars == <<copy, mVm, mClass, mObject, mClasses, mMethods>>
obsVars == <<arg, env, calls, logs, nNew, managed, outcome>>
vars == <<copy, mVm, mClass, mObject, mClasses, mMethods,
          arg, env, calls, logs, nNew, managed, outcome, pc, pending, nth,
          threads>>

\* the native threads of the interleaved calls, and a thread outside any
\* entry point
ThreadIds == 1..3

Outside == [at |-> "outside"]

Copies == {"jni", "jni_unused"}

\* the jmethodID fields of the two copies
MethodFields ==
  {"mOnDeviceStateNotificationReceived", "mOnRangeDataNotificationReceived",
   "mOnSessionStatusNotificationReceived",
   "mOnCoreGenericErrorNotificationReceived",
   "mOnMulticastListUpdateNotificationReceived",
   "mOnBlinkDataTxNotificationReceived", "mOnRawUciNotificationReceived",
   "mOnVendorUciNotificationReceived", "mOnVendorDeviceInfo", "mOnDataReceived"}

\* the cached jclass fields of the two copies
ClassFields ==
  {"mRangeDataClass", "mRangingTwoWayMeasuresClass",
   "mRangingOwrAoaMeasuresClass", "mRangeTdoaMeasuresClass",
   "mRangeDlTdoaMeasuresClass", "mMulticastUpdateListDataClass"}

\* the methods doLoadSymbols looks up with GetMethodID, per copy
LoadedMethods(c) ==
  IF c = "jni"
  THEN {"mOnDeviceStateNotificationReceived", "mOnRangeDataNotificationReceived",
        "mOnSessionStatusNotificationReceived",
        "mOnCoreGenericErrorNotificationReceived",
        "mOnMulticastListUpdateNotificationReceived"}
  ELSE {"mOnDeviceStateNotificationReceived", "mOnRangeDataNotificationReceived",
        "mOnSessionStatusNotificationReceived",
        "mOnCoreGenericErrorNotificationReceived", "mOnDataReceived",
        "mOnMulticastListUpdateNotificationReceived",
        "mOnRawUciNotificationReceived", "mOnVendorUciNotificationReceived",
        "mOnVendorDeviceInfo"}

\* the classes doLoadSymbols caches with uwb_jni_cache_jclass, per copy
LoadedClasses(c) ==
  IF c = "jni"
  THEN {"mRangeDataClass", "mRangingTwoWayMeasuresClass",
        "mRangeTdoaMeasuresClass", "mMulticastUpdateListDataClass"}
  ELSE {"mRangeDataClass", "mRangingTwoWayMeasuresClass",
        "mRangeDlTdoaMeasuresClass", "mRangingOwrAoaMeasuresClass",
        "mMulticastUpdateListDataClass"}

\* the jmethodID field each notification entry point of a copy reads
HandlerMethods(c) ==
  {"mOnRangeDataNotificationReceived", "mOnRawUciNotificationReceived",
   "mOnSessionStatusNotificationReceived", "mOnDeviceStateNotificationReceived",
   "mOnCoreGenericErrorNotificationReceived",
   "mOnMulticastListUpdateNotificationReceived",
   "mOnBlinkDataTxNotificationReceived"}
  \cup (IF c = "jni_unused"
        THEN {"mOnVendorUciNotificationReceived", "mOnVendorDeviceInfo"}
        ELSE {})

\* the jmethodID field the entry point op delivers through
MethodOf(op) ==
  CASE op = "onRangeDataNotificationReceived" ->
         "mOnRangeDataNotificationReceived"
    [] op = "onRawUciNotificationReceived" -> "mOnRawUciNotificationReceived"
    [] op = "onSessionStatusNotificationReceived" ->
         "mOnSessionStatusNotificationReceived"
    [] op = "onDeviceStateNotificationReceived" ->
         "mOnDeviceStateNotificationReceived"
    [] op = "onCoreGenericErrorNotificationReceived" ->
         "mOnCoreGenericErrorNotificationReceived"
    [] op = "onMulticastListUpdateNotificationReceived" ->
         "mOnMulticastListUpdateNotificationReceived"
    [] op = "onBlinkDataTxNotificationReceived" ->
         "mOnBlinkDataTxNotificationReceived"
    [] op = "onVendorUciNotificationReceived" ->
         "mOnVendorUciNotificationReceived"
    [] op = "onVendorDeviceInfo" -> "mOnVendorDeviceInfo"

\* UwbEventManager::UwbEventManager(): every field NULL
UwbEventManager(c) ==
  /\ copy = c
  /\ mVm = FALSE
  /\ mClass = FALSE
  /\ mObject = FALSE
  /\ mClasses = [f \in ClassFields |-> FALSE]
  /\ mMethods = [f \in MethodFields |-> FALSE]

\* no entry point has been called yet
NoCall == [op |-> "none"]

Idle ==
  /\ arg = NoCall
  /\ env = FALSE
  /\ calls = <<>>
  /\ logs = <<>>
  /\ nNew = 0
  /\ managed = NullRef
  /\ outcome = "returned"

Init ==
  /\ \E c \in Copies : UwbEventManager(c)
  /\ Idle
  /\ pc = "idle"
  /\ pending = FALSE
  /\ nth = 0
  /\ threads = [t \in ThreadIds |-> Outside]

(***************************************************************************)
(* What the runtime does during one call: "noenv" the JNIEnv of the        *)
(* calling thread cannot be obtained, "ok" it can and the listener returns *)
(* normally, "throws" it can and the listener method throws.               *)
(***************************************************************************)
Runtime == {"noenv", "ok", "throws"}

\* a fourth course, taken in SpecConstruct only: "raises" the env can be
\* obtained and the construction of the object to deliver raises (the
\* constructor is not found, or memory runs out): NewObject gives NULL and
\* leaves the exception pending
Raises == "raises"

\* ScopedJniEnv env(mVm); env != NULL
ScopedJniEnv(vm, rt) == vm /\ rt # "noenv"

\* the outcomes of undefined behaviour: the process dies, or the call goes on
UBOutcomes == {"crashed", "returned"}

\* the listener invocations c as the listener records them: each with the
\* number k of the native call during which it was made and with what that
\* call was handed (a)
Received(c, k, a) ==
  [i \in DOMAIN c |->
     [method |-> c[i].method, object |-> c[i].object, args |-> c[i].args,
      threw |-> c[i].threw, pending |-> c[i].pending, nth |-> k, of |-> a]]

\* Finish with the listener's record of the call put before the record of
\* the earlier calls
FinishPrepends(a, e, c, l, n, m, o) ==
  /\ arg' = a
  /\ env' = e
  /\ calls' = Received(c, nth + 1, a) \o calls
  /\ logs' = l
  /\ nNew' = n
  /\ managed' = m
  /\ outcome' = o
  /\ pc' = "returned"
  /\ pending' = (pending \/ \E i \in DOMAIN c : c[i].pending)
  /\ nth' = nth + 1
  /\ UNCHANGED <<mgrVars, threads>>

\* the end of a call: what it was handed (a), whether it had an env (e), the
\* listener calls it made (c), its trace (l), the number of managed arrays
\* and objects it constructed (n), the object it assembled (m), how it ended
Finish(a, e, c, l, n, m, o) ==
  /\ arg' = a
  /\ env' = e
  /\ calls' = calls \o Received(c, nth + 1, a)
  /\ logs' = l
  /\ nNew' = n
  /\ managed' = m
  /\ outcome' = o
  /\ pc' = "returned"
  /\ pending' = (pending \/ \E i \in DOMAIN c : c[i].pending)
  /\ nth' = nth + 1
  /\ UNCHANGED <<mgrVars, threads>>

\* a call that uses the env while an exception is pending in it is undefined:
\* the process dies before it has done anything, or the call goes on
Return(a, e, c, l, n, m, o) ==
  IF pending /\ e
  THEN \/ Finish(a, e, <<>>, <<>>, 0, NullRef, "crashed")
       \/ Finish(a, e, c, l, n, m, o)
  ELSE Finish(a, e, c, l, n, m, o)

\* the end of a call that made no listener call after a construction
\* raised: nothing clears the exception
Raised(a, l, n) ==
  /\ arg' = a
  /\ env' = TRUE
  /\ logs' = l
  /\ nNew' = n
  /\ managed' = NullRef
  /\ outcome' = "returned"
  /\ pc' = "returned"
  /\ pending' = TRUE
  /\ nth' = nth + 1
  /\ UNCHANGED <<mgrVars, calls, threads>>

ReturnRaised(a, l, n) ==
  IF pending
  THEN \/ Finish(a, TRUE, <<>>, <<>>, 0, NullRef, "crashed")
       \/ Raised(a, l, n)
  ELSE Raised(a, l, n)

\* a construction raised and the listener method is resolved: CallVoidMethod
\* is entered with the exception pending, which is undefined - the process
\* dies, or the call is made with the NULL object; ExceptionCheck then finds
\* an exception and ExceptionClear removes it
CallRaised(a, field, n, failmsg) ==
  \/ Return(a, TRUE, <<>>, <<>>, n, NullRef, "crashed")
  \/ Return(a, TRUE,
            <<[method |-> field, object |-> mObject, args |-> <<NullRef>>,
               threw |-> FALSE, pending |-> FALSE]>>,
            <<failmsg>>, n, NullRef, "returned")

\* ExceptionCheck that never sees the exception
ExceptionCheckNever(rt) == FALSE

\* env->ExceptionCheck() right after the listener call: the listener threw
ExceptionCheck(rt) == rt = "throws"

\* CallVoidMethod with the test of the method id inverted
CallVoidMethodInverted(field, args, rt, failmsg, nullmsg) ==
  IF ~mMethods[field]
  THEN [calls |-> <<[method |-> field, object |-> mObject, args |-> args,
                     threw |-> rt = "throws",
                     pending |-> rt = "throws" /\ ~ExceptionCheck(rt)]>>,
        logs |-> IF ExceptionCheck(rt) THEN <<failmsg>> ELSE <<>>]
  ELSE [calls |-> <<>>, logs |-> <<nullmsg>>]

\* if (mid != NULL) { env->CallVoidMethod(mObject, mid, args...);
\*   if (env->ExceptionCheck()) { env->ExceptionClear(); JNI_TRACE_E(fail) } }
\* else JNI_TRACE_E(nullmsg): the calls made and the trace written.  The
\* exception the listener threw stays pending unless the check finds it and
\* ExceptionClear removes it
CallVoidMethod(field, args, rt, failmsg, nullmsg) ==
  IF mMethods[field]
  THEN [calls |-> <<[method |-> field, object |-> mObject, args |-> args,
                     threw |-> rt = "throws",
                     pending |-> rt = "throws" /\ ~ExceptionCheck(rt)]>>,
        logs |-> IF ExceptionCheck(rt) THEN <<failmsg>> ELSE <<>>]
  ELSE [calls |-> <<>>, logs |-> <<nullmsg>>]

\* uwb_jni_cache_jclass(env, name, &field): the class is found and a global
\* reference to it is stored
uwb_jni_cache_jclass(c, old) ==
  [f \in ClassFields |-> IF f \in LoadedClasses(c) THEN TRUE ELSE old[f]]

\* the outcomes of the GetMethodID calls of one doLoadSymbols: the set of
\* looked-up methods the listener's class does not have
LookupFailures(c) ==
  {{}} \cup {{f} : f \in LoadedMethods(c)} \cup {LoadedMethods(c)}

\* UwbEventManager::doLoadSymbols(env, thiz); clazz says whether
\* GetObjectClass(thiz) gave a class, missing which lookups fail
doLoadSymbols(clazz, missing) ==
  /\ pc = "idle"
  /\ mVm' = TRUE
  /\ IF clazz
     THEN /\ mClass' = TRUE
          /\ mObject' = TRUE
          /\ mMethods' = [f \in MethodFields |->
                            IF f \in LoadedMethods(copy)
                            THEN f \notin missing ELSE mMethods[f]]
          /\ mClasses' = uwb_jni_cache_jclass(copy, mClasses)
     ELSE UNCHANGED <<mClass, mObject, mMethods, mClasses>>
  /\ arg' = [op |-> "doLoadSymbols", clazz |-> clazz, missing |-> missing]
  /\ env' = TRUE
  /\ logs' = <<>>
  /\ nNew' = 0
  /\ managed' = NullRef
  /\ outcome' = "returned"
  /\ pc' = "returned"
  /\ nth' = nth + 1
  /\ UNCHANGED <<copy, calls, pending, threads>>

(***************************************************************************)
(* The entry points that pass primitive values on.                         *)
(***************************************************************************)
\* the common shape of the session status, device state, generic error and
\* blink data tx entry points
NotifyPrimitive(a, field, args, rt, nullmsg) ==
  IF ~ScopedJniEnv(mVm, rt)
  THEN Return(a, FALSE, <<>>, <<"E: jni env is null">>, 0, NullRef, "returned")
  ELSE LET r == CallVoidMethod(field, args, rt, "E: fail to notify", nullmsg)
       IN Return(a, TRUE, r.calls, r.logs, 0, NullRef, "returned")

onSessionStatusNotificationReceived(sessionId, state, reasonCode, rt) ==
  /\ pc = "idle"
  /\ NotifyPrimitive([op |-> "onSessionStatusNotificationReceived",
                      sessionId |-> sessionId, state |-> state,
                      reasonCode |-> reasonCode, rt |-> rt],
                     "mOnSessionStatusNotificationReceived",
                     <<sessionId, state, reasonCode>>, rt,
                     "E: sessionStatusNtf MID is null")

onDeviceStateNotificationReceived(state, rt) ==
  /\ pc = "idle"
  /\ NotifyPrimitive([op |-> "onDeviceStateNotificationReceived",
                      state |-> state, rt |-> rt],
                     "mOnDeviceStateNotificationReceived", <<state>>, rt,
                     "E: deviceStatusNtf MID is null")

onCoreGenericErrorNotificationReceived(state, rt) ==
  /\ pc = "idle"
  /\ NotifyPrimitive([op |-> "onCoreGenericErrorNotificationReceived",
                      state |-> state, rt |-> rt],
                     "mOnCoreGenericErrorNotificationReceived", <<state>>, rt,
                     "E: genericErrorStatusNtf MID is null")

onBlinkDataTxNotificationReceived(status, rt) ==
  /\ pc = "idle"
  /\ NotifyPrimitive([op |-> "onBlinkDataTxNotificationReceived",
                      status |-> status, rt |-> rt],
                     "mOnBlinkDataTxNotificationReceived", <<status>>, rt,
                     "E: BlikDataTxNtf MID is null")

(***************************************************************************)
(* The entry points that pass a byte payload on.  A payload is handed over *)
(* as a pointer and a length; the pointer is NullRef, or                   *)
(* [isNull |-> FALSE, seed |-> s] for the native buffer s.                 *)
(***************************************************************************)
onRawUciNotificationReceived(data, length, rt) ==
  /\ pc = "idle"
  /\ LET a == [op |-> "onRawUciNotificationReceived", data |-> data,
               length |-> length, rt |-> rt]
     IN IF ~ScopedJniEnv(mVm, rt)
        THEN Return(a, FALSE, <<>>, <<"E: jni env is null">>, 0, NullRef,
                    "returned")
        ELSE IF length = 0 \/ data.isNull
        THEN Return(a, TRUE, <<>>,
                    <<"E: length is zero or data is NULL, skip sending notifications">>,
                    0, NullRef, "returned")
        ELSE LET dataArray == ByteArrayOf(data.seed, 0, length)
                 r == CallVoidMethod("mOnRawUciNotificationReceived",
                                     <<dataArray>>, rt,
                                     "E: fail to send notification",
                                     "E: onRawUciNotificationReceived MID is NULL")
             IN Return(a, TRUE, r.calls, r.logs, 1, dataArray, "returned")

\* onVendorUciNotificationReceived with the argument check of
\* onRawUciNotificationReceived: an empty payload is not passed on
onVendorUciNotificationReceivedChecked(gid, oid, data, length, rt) ==
  /\ pc = "idle"
  /\ copy = "jni_unused"
  /\ LET a == [op |-> "onVendorUciNotificationReceived", gid |-> gid,
               oid |-> oid, data |-> data, length |-> length, rt |-> rt]
     IN IF ~ScopedJniEnv(mVm, rt)
        THEN Return(a, FALSE, <<>>, <<"E: jni env is null">>, 0, NullRef,
                    "returned")
        ELSE IF length = 0 \/ data.isNull
        THEN Return(a, TRUE, <<>>,
                    <<"E: length is zero or data is NULL, skip sending notifications">>,
                    0, NullRef, "returned")
        ELSE LET dataArray == ByteArrayOf(data.seed, 0, length)
                 r == CallVoidMethod("mOnVendorUciNotificationReceived",
                                     <<gid, oid, dataArray>>, rt,
                                     "E: fail to send notification",
                                     "E: onVendorUciNotificationReceived MID is NULL")
             IN Return(a, TRUE, r.calls, r.logs, 1, dataArray, "returned")

\* jni_unused only.  No check of data or length: with data == NULL and
\* length > 0 SetByteArrayRegion reads through a NULL pointer
onVendorUciNotificationReceived(gid, oid, data, length, rt) ==
  /\ pc = "idle"
  /\ copy = "jni_unused"
  /\ LET a == [op |-> "onVendorUciNotificationReceived", gid |-> gid,
               oid |-> oid, data |-> data, length |-> length, rt |-> rt]
         deliver(dataArray) ==
           LET r == CallVoidMethod("mOnVendorUciNotificationReceived",
                                   <<gid, oid, dataArray>>, rt,
                                   "E: fail to send notification",
                                   "E: onVendorUciNotificationReceived MID is NULL")
           IN Return(a, TRUE, r.calls, r.logs, 1, dataArray, "returned")
     IN IF ~ScopedJniEnv(mVm, rt)
        THEN Return(a, FALSE, <<>>, <<"E: jni env is null">>, 0, NullRef,
                    "returned")
        ELSE IF data.isNull /\ length > 0
        THEN \/ Return(a, TRUE, <<>>, <<>>, 1, NullRef, "crashed")
             \/ \E g \in GarbageValues : deliver(GarbageArray(length, g))
        ELSE IF data.isNull
        THEN deliver(GarbageArray(0, 0))
        ELSE deliver(ByteArrayOf(data.seed, 0, length))

\* jni_unused only.  The arguments are checked before the env is taken, and
\* the env is used without a check
onVendorDeviceInfo(data, length, rt) ==
  /\ pc = "idle"
  /\ copy = "jni_unused"
  /\ LET a == [op |-> "onVendorDeviceInfo", data |-> data, length |-> length,
               rt |-> rt]
     IN IF length <= 0 \/ data.isNull
        THEN Return(a, FALSE, <<>>,
                    <<"E: data len is Zero or vendorDevice info  is NULL">>,
                    0, NullRef, "returned")
        ELSE IF ~ScopedJniEnv(mVm, rt)
        THEN \E o \in UBOutcomes :
               Return(a, FALSE, <<>>, <<>>, 0, NullRef, o)
        ELSE LET dataArray == ByteArrayOf(data.seed, 0, length)
                 r == CallVoidMethod("mOnVendorDeviceInfo", <<dataArray>>, rt,
                                     "E: fail to vendor info",
                                     "E: onVendorDeviceInfo MID is NULL")
             IN Return(a, TRUE, r.calls, r.logs, 1, dataArray, "returned")

(***************************************************************************)
(* The multicast list update entry point.  It is handed NullRef or a       *)
(* native struct [isNull |-> FALSE, session_id, remaining_list,            *)
(* no_of_controlees, seed], which carries three arrays of                  *)
(* MAX_NUM_CONTROLLEES elements; element i (from 1) of array number        *)
(* "field" of the struct "seed" is NativeElem(seed, field, i).             *)
(***************************************************************************)
NativeElem(seed, field, i) == seed * 100 + field * 10 + i

\* ListArrayOf with the copying loop reading list[i + 1] for list[i]
ListArrayOfShifted(seed, field, n, g) ==
  [isNull |-> FALSE,
   elems |-> [i \in 1..n |-> IF i + 1 <= MAX_NUM_CONTROLLEES
                              THEN NativeElem(seed, field, i + 1) ELSE g]]

\* env->New<T>Array(n) and, when n > 0, the loop copying list[i] for i < n
\* and env->Set<T>ArrayRegion; an element past the native array is garbage g
ListArrayOf(seed, field, n, g) ==
  [isNull |-> FALSE,
   elems |-> [i \in 1..n |-> IF i <= MAX_NUM_CONTROLLEES
                              THEN NativeElem(seed, field, i) ELSE g]]

\* env->NewObject(mMulticastUpdateListDataClass, ctor, session_id,
\*   remaining_list, no_of_controlees, arrays...): three arrays in
\* jni_unused, two in jni; g1, g2: what a read past the native arrays gives
MulticastObject(c, ntf, g1, g2) ==
  IF c = "jni_unused"
  THEN [isNull |-> FALSE,
        class |-> "UwbMulticastListUpdateStatus",
        session_id |-> ntf.session_id,
        remaining_list |-> ntf.remaining_list,
        no_of_controlees |-> ntf.no_of_controlees,
        controleeMacAddressArray |->
          ListArrayOf(ntf.seed, 0, ntf.no_of_controlees, 0),
        subSessionIdArray |-> ListArrayOf(ntf.seed, 1, ntf.no_of_controlees, g1),
        statusArray |-> ListArrayOf(ntf.seed, 2, ntf.no_of_controlees, g2)]
  ELSE [isNull |-> FALSE,
        class |-> "UwbMulticastListUpdateStatus",
        session_id |-> ntf.session_id,
        remaining_list |-> ntf.remaining_list,
        no_of_controlees |-> ntf.no_of_controlees,
        subSessionIdArray |-> ListArrayOf(ntf.seed, 1, ntf.no_of_controlees, g1),
        statusArray |-> ListArrayOf(ntf.seed, 2, ntf.no_of_controlees, g2)]

\* jni_unused/UwbEventManager.cpp: the count is checked, three arrays
MulticastUnused(a, ntf, rt) ==
  IF ~ScopedJniEnv(mVm, rt)
  THEN Return(a, FALSE, <<>>, <<"E: jni env is null">>, 0, NullRef, "returned")
  ELSE IF ntf.isNull
  THEN Return(a, TRUE, <<>>, <<"E: multicast_list_ntf is null">>, 0, NullRef,
              "returned")
  ELSE IF ntf.no_of_controlees > MAX_NUM_CONTROLLEES
  THEN Return(a, TRUE, <<>>, <<"E: no Of Controlees exceeded max allowed">>,
              0, NullRef, "returned")
  ELSE IF ~mClasses["mMulticastUpdateListDataClass"]
  THEN \E o \in UBOutcomes :
         LET r == CallVoidMethod("mOnMulticastListUpdateNotificationReceived",
                                 <<NullRef>>, rt,
                                 "E: fail to send Multicast update list ntf",
                                 "E: MulticastUpdateListNtf MID is null")
         IN IF o = "crashed"
            THEN Return(a, TRUE, <<>>, <<>>, 3, NullRef, o)
            ELSE Return(a, TRUE, r.calls, r.logs, 3, NullRef, o)
  ELSE IF rt = Raises
  THEN IF mMethods["mOnMulticastListUpdateNotificationReceived"]
       THEN CallRaised(a, "mOnMulticastListUpdateNotificationReceived", 3,
                       "E: fail to send Multicast update list ntf")
       ELSE ReturnRaised(a, <<"E: MulticastUpdateListNtf MID is null">>, 3)
  ELSE LET obj == MulticastObject("jni_unused", ntf, 0, 0)
           r == CallVoidMethod("mOnMulticastListUpdateNotificationReceived",
                               <<obj>>, rt,
                               "E: fail to send Multicast update list ntf",
                               "E: MulticastUpdateListNtf MID is null")
       IN Return(a, TRUE, r.calls, r.logs, 4, obj, "returned")

\* jni/UwbEventManager.cpp: no check of the count, two arrays; a count above
\* MAX_NUM_CONTROLLEES reads past the end of the native arrays
MulticastActive(a, ntf, rt) ==
  IF ~ScopedJniEnv(mVm, rt)
  THEN Return(a, FALSE, <<>>, <<"E: jni env is null">>, 0, NullRef, "returned")
  ELSE IF ntf.isNull
  THEN Return(a, TRUE, <<>>, <<"E: multicast_list_ntf is null">>, 0, NullRef,
              "returned")
  ELSE IF ~mClasses["mMulticastUpdateListDataClass"]
  THEN \E o \in UBOutcomes :
         LET r == CallVoidMethod("mOnMulticastListUpdateNotificationReceived",
                                 <<NullRef>>, rt,
                                 "E: fail to send Multicast update list ntf",
                                 "E: MulticastUpdateListNtf MID is null")
         IN IF o = "crashed"
            THEN Return(a, TRUE, <<>>, <<>>, 2, NullRef, o)
            ELSE Return(a, TRUE, r.calls, r.logs, 2, NullRef, o)
  ELSE IF rt = Raises
  THEN IF mMethods["mOnMulticastListUpdateNotificationReceived"]
       THEN CallRaised(a, "mOnMulticastListUpdateNotificationReceived", 2,
                       "E: fail to send Multicast update list ntf")
       ELSE ReturnRaised(a, <<"E: MulticastUpdateListNtf MID is null">>, 2)
  ELSE \E g1, g2 \in (IF ntf.no_of_controlees > MAX_NUM_CONTROLLEES
                      THEN GarbageValues ELSE {0}) :
       LET obj == MulticastObject("jni", ntf, g1, g2)
           r == CallVoidMethod("mOnMulticastListUpdateNotificationReceived",
                               <<obj>>, rt,
                               "E: fail to send Multicast update list ntf",
                               "E: MulticastUpdateListNtf MID is null")
       IN Return(a, TRUE, r.calls, r.logs, 3, obj, "returned")

onMulticastListUpdateNotificationReceived(ntf, rt) ==
  /\ pc = "idle"
  /\ LET a == [op |-> "onMulticastListUpdateNotificationReceived",
               ntf |-> ntf, rt |-> rt]
     IN IF copy = "jni_unused"
        THEN MulticastUnused(a, ntf, rt)
        ELSE MulticastActive(a, ntf, rt)

(***************************************************************************)
(* The ranging data entry point.                                           *)
(*                                                                         *)
(* A native measurement record is [id, message_control, device_info_size,  *)
(* blink_payload_size]: id names the record, so that the bytes of its      *)
(* buffers are NativeByte(id, field, j) and the value of its scalar field  *)
(* f is the pair <<id, f>>.  ntf.measures is the storage of the            *)
(* ranging_measures union, of which the first no_of_measurements records   *)
(* are read.                                                               *)
(***************************************************************************)
\* (int)ranging_measures.<variant>[i].<f>
NativeField(rec, f) == <<rec.id, f>>

RECURSIVE Flatten(_)
Flatten(ss) == IF ss = <<>> THEN <<>> ELSE Head(ss) \o Flatten(Tail(ss))

RECURSIVE Sum(_)
Sum(ns) == IF ns = <<>> THEN 0 ELSE Head(ns) + Sum(Tail(ns))

\* if (mac_addr_mode_indicator == SHORT_MAC_ADDRESS) NewByteArray(2) ...
\* else NewByteArray(8) ...
MacAddressLen(mode) ==
  IF mode = SHORT_MAC_ADDRESS THEN MAC_SHORT_ADD_LEN ELSE MAC_EXT_ADD_LEN

\* RfuLen that tests the flag against EXTENDED_MAC_ADDRESS
RfuLenWhenExtended(mode) == IF mode = EXTENDED_MAC_ADDRESS THEN 6 ELSE 12

\* the rfu array that goes with the address: 12 bytes with a short address,
\* 6 with any other
RfuLen(mode) == IF mode = SHORT_MAC_ADDRESS THEN 12 ELSE 6

\* one element of rangeMeasuresArray: UwbTwoWayMeasurement (the expanded
\* copy also passes rssi)
TwoWayMeasure(c, rec, mode) ==
  [obj |->
     [isNull |-> FALSE, class |-> "UwbTwoWayMeasurement",
      macAddress |-> ByteArrayOf(rec.id, 0, MacAddressLen(mode)),
      ints |-> <<NativeField(rec, "status"), NativeField(rec, "nLos"),
                 NativeField(rec, "distance"), NativeField(rec, "aoa_azimuth"),
                 NativeField(rec, "aoa_azimuth_FOM"),
                 NativeField(rec, "aoa_elevation"),
                 NativeField(rec, "aoa_elevation_FOM"),
                 NativeField(rec, "aoa_dest_azimuth"),
                 NativeField(rec, "aoa_dest_azimuth_FOM"),
                 NativeField(rec, "aoa_dest_elevation"),
                 NativeField(rec, "aoa_dest_elevation_FOM"),
                 NativeField(rec, "slot_index")>>
                \o (IF c = "jni_unused" THEN <<NativeField(rec, "rssi")>>
                    ELSE <<>>),
      rfu |-> ByteArrayOf(rec.id, 1, RfuLen(mode))],
   logs |-> <<>>,
   news |-> 3]

\* The four variable-length fields of a downlink-TDoA record.  <F>Value is
\* the selector cut out of message_control, e.g. txTimeStampValue =
\* (message_control & TDOA_TX_TIMESTAMP_OFFSET) & TDOA_TX_TIMESTAMP_OFFSET_MASK;
\* <F>Array is the branch on it: the array constructed, the trace written
\* and the number of arrays constructed
\* TxTimeStampValue with the mask 0x07 for 0x06
TxTimeStampValueWideMask(rec) ==
  BitAnd(BitAnd(rec.message_control, TDOA_TX_TIMESTAMP_OFFSET), 7)

TxTimeStampValue(rec) ==
  BitAnd(BitAnd(rec.message_control, TDOA_TX_TIMESTAMP_OFFSET),
         TDOA_TX_TIMESTAMP_OFFSET_MASK)

TxTimeStampArray(rec, txTimeStampValue) ==
  IF txTimeStampValue = TDOA_TX_TIMESTAMP_40BITS
  THEN [array |-> ByteArrayOf(rec.id, 2, TDOA_TIMESTAMP_LEN_40BITS),
        logs |-> <<>>, news |-> 1]
  ELSE IF txTimeStampValue = TDOA_TX_TIMESTAMP_64BITS
  THEN [array |-> ByteArrayOf(rec.id, 2, TDOA_TIMESTAMP_LEN_64BITS),
        logs |-> <<>>, news |-> 1]
  ELSE [array |-> NullRef, logs |-> <<"E: Invalid dlTdoaTxTimeStamp">>,
        news |-> 0]

TxTimeStamp(rec) == TxTimeStampArray(rec, TxTimeStampValue(rec))

\* RxTimeStampValue with the tx mask for the rx mask
RxTimeStampValueTxMask(rec) ==
  BitAnd(BitAnd(rec.message_control, TDOA_RX_TIMESTAMP_OFFSET),
         TDOA_TX_TIMESTAMP_OFFSET_MASK)

RxTimeStampValue(rec) ==
  BitAnd(BitAnd(rec.message_control, TDOA_RX_TIMESTAMP_OFFSET),
         TDOA_RX_TIMESTAMP_OFFSET_MASK)

RxTimeStampArray(rec, rxTimeStampValue) ==
  IF rxTimeStampValue = TDOA_RX_TIMESTAMP_40BITS
  THEN [array |-> ByteArrayOf(rec.id, 3, TDOA_TIMESTAMP_LEN_40BITS),
        logs |-> <<>>, news |-> 1]
  ELSE IF rxTimeStampValue = TDOA_RX_TIMESTAMP_64BITS
  THEN [array |-> ByteArrayOf(rec.id, 3, TDOA_TIMESTAMP_LEN_64BITS),
        logs |-> <<>>, news |-> 1]
  ELSE [array |-> NullRef, logs |-> <<"E: Invalid dlTdoaRxTimeStamp">>,
        news |-> 0]

RxTimeStamp(rec) == RxTimeStampArray(rec, RxTimeStampValue(rec))

AnchorLocationValue(rec) ==
  BitAnd(BitAnd(rec.message_control, TDOA_ANCHOR_LOC_OFFSET),
         TDOA_ANCHOR_LOC_OFFSET_MASK)

\* AnchorLocationArray with the two lengths exchanged
AnchorLocationArraySwapped(rec, anchorLocationValue) ==
  IF anchorLocationValue = TDOA_ANCHOR_LOC_NOT_INCLUDED
  THEN [array |-> NullRef, logs |-> <<"I: AnchorLocation not included">>,
        news |-> 0]
  ELSE IF anchorLocationValue = TDOA_ANCHOR_LOC_IN_RELATIVE_SYSTEM
  THEN [array |-> ByteArrayOf(rec.id, 4, TDOA_ANCHOR_LOC_LEN_12BYTES),
        logs |-> <<>>, news |-> 1]
  ELSE IF anchorLocationValue = TDOA_ANCHOR_LOC_IN_WGS84_SYSTEM
  THEN [array |-> ByteArrayOf(rec.id, 4, TDOA_ANCHOR_LOC_LEN_10BYTES),
        logs |-> <<>>, news |-> 1]
  ELSE [array |-> NullRef, logs |-> <<"E: Invalid dlTdoaAnchorLocation">>,
        news |-> 0]

AnchorLocationArray(rec, anchorLocationValue) ==
  IF anchorLocationValue = TDOA_ANCHOR_LOC_NOT_INCLUDED
  THEN [array |-> NullRef, logs |-> <<"I: AnchorLocation not included">>,
        news |-> 0]
  ELSE IF anchorLocationValue = TDOA_ANCHOR_LOC_IN_RELATIVE_SYSTEM
  THEN [array |-> ByteArrayOf(rec.id, 4, TDOA_ANCHOR_LOC_LEN_10BYTES),
        logs |-> <<>>, news |-> 1]
  ELSE IF anchorLocationValue = TDOA_ANCHOR_LOC_IN_WGS84_SYSTEM
  THEN [array |-> ByteArrayOf(rec.id, 4, TDOA_ANCHOR_LOC_LEN_12BYTES),
        logs |-> <<>>, news |-> 1]
  ELSE [array |-> NullRef, logs |-> <<"E: Invalid dlTdoaAnchorLocation">>,
        news |-> 0]

AnchorLocation(rec) == AnchorLocationArray(rec, AnchorLocationValue(rec))

\* ActiveRangingRoundValue without the mask 0x0780
ActiveRangingRoundValueUnmasked(rec) ==
  ShiftRight(BitAnd(rec.message_control, TDOA_ACTIVE_RR_OFFSET),
             TDOA_ACTIVE_RR_INDEX_POSITION)

ActiveRangingRoundValue(rec) ==
  ShiftRight(BitAnd(BitAnd(rec.message_control, TDOA_ACTIVE_RR_OFFSET),
                    TDOA_ACTIVE_RR_OFFSET_MASK),
             TDOA_ACTIVE_RR_INDEX_POSITION)

ActiveRangingRoundArray(rec, activeRangingRoundValue) ==
  IF activeRangingRoundValue # 0
  THEN [array |-> ByteArrayOf(rec.id, 5, activeRangingRoundValue),
        logs |-> <<>>, news |-> 1]
  ELSE [array |-> NullRef,
        logs |-> <<"I: dlTdoaActiveRangingRound not included">>,
        news |-> 0]

ActiveRangingRound(rec) ==
  ActiveRangingRoundArray(rec, ActiveRangingRoundValue(rec))

\* DlTdoaObject that leaves the rx-timestamp out when the tx-timestamp is
\* invalid
DlTdoaObjectTxGuardsRx(rec, mode, tx, rx, al, rr) ==
     [obj |->
        [isNull |-> FALSE, class |-> "UwbDownLinkTDoAMeasurement",
         macAddress |-> ByteArrayOf(rec.id, 0, MacAddressLen(mode)),
         ints |-> <<NativeField(rec, "status"),
                    NativeField(rec, "message_type"),
                    rec.message_control,
                    NativeField(rec, "block_index"),
                    NativeField(rec, "round_index"),
                    NativeField(rec, "nLos"),
                    NativeField(rec, "aoa_azimuth"),
                    NativeField(rec, "aoa_azimuth_FOM"),
                    NativeField(rec, "aoa_elevation"),
                    NativeField(rec, "aoa_elevation_FOM")>>,
         txTimeStamp |-> tx.array,
         rxTimeStamp |-> IF tx.array.isNull THEN NullRef ELSE rx.array,
         tail |-> <<NativeField(rec, "cfo_anchor"), NativeField(rec, "cfo"),
                    NativeField(rec, "initiator_reply_time"),
                    NativeField(rec, "responder_reply_time"),
                    NativeField(rec, "initiator_responder_TOF")>>,
         anchorLocation |-> al.array,
         activeRangingRound |-> rr.array],
      logs |-> tx.logs \o rx.logs \o al.logs \o rr.logs,
      news |-> 1 + tx.news + rx.news + al.news + rr.news + 1]

\* one element of rangeDlTdoaMeasuresArray: the UwbDownLinkTDoAMeasurement
\* constructed from the record and its four decoded fields
DlTdoaObject(rec, mode, tx, rx, al, rr) ==
     [obj |->
        [isNull |-> FALSE, class |-> "UwbDownLinkTDoAMeasurement",
         macAddress |-> ByteArrayOf(rec.id, 0, MacAddressLen(mode)),
         ints |-> <<NativeField(rec, "status"),
                    NativeField(rec, "message_type"),
                    rec.message_control,
                    NativeField(rec, "block_index"),
                    NativeField(rec, "round_index"),
                    NativeField(rec, "nLos"),
                    NativeField(rec, "aoa_azimuth"),
                    NativeField(rec, "aoa_azimuth_FOM"),
                    NativeField(rec, "aoa_elevation"),
                    NativeField(rec, "aoa_elevation_FOM")>>,
         txTimeStamp |-> tx.array,
         rxTimeStamp |-> rx.array,
         tail |-> <<NativeField(rec, "cfo_anchor"), NativeField(rec, "cfo"),
                    NativeField(rec, "initiator_reply_time"),
                    NativeField(rec, "responder_reply_time"),
                    NativeField(rec, "initiator_responder_TOF")>>,
         anchorLocation |-> al.array,
         activeRangingRound |-> rr.array],
      logs |-> tx.logs \o rx.logs \o al.logs \o rr.logs,
      news |-> 1 + tx.news + rx.news + al.news + rr.news + 1]

\* the body of the downlink-TDoA loop for one record
DlTdoaMeasure(rec, mode) ==
  DlTdoaObject(rec, mode, TxTimeStamp(rec), RxTimeStamp(rec),
               AnchorLocation(rec), ActiveRangingRound(rec))

\* the single UwbOwrAoaMeasurement of the expanded copy
OwrAoaMeasure(rec, mode) ==
  [obj |->
     [isNull |-> FALSE, class |-> "UwbOwrAoaMeasurement",
      macAddress |-> ByteArrayOf(rec.id, 0, MacAddressLen(mode)),
      ints |-> <<NativeField(rec, "status"), NativeField(rec, "nLos"),
                 NativeField(rec, "frame_seq_num"),
                 NativeField(rec, "block_index"),
                 NativeField(rec, "aoa_azimuth"),
                 NativeField(rec, "aoa_azimuth_FOM"),
                 NativeField(rec, "aoa_elevation"),
                 NativeField(rec, "aoa_elevation_FOM")>>],
   logs |-> <<>>,
   news |-> 2]

\* if (size > 0) { a = NewByteArray(size); if (a != NULL) SetByteArrayRegion }
SizedArray(rec, field, size) ==
  IF size > 0 THEN ByteArrayOf(rec.id, field, size) ELSE NullRef

\* one element of rangeTdoaMeasuresArray of the active copy: UwbTDoAMeasurement
\* a variant that allocates the blink payload only inside the branch of a
\* non-empty device info
TdoaMeasureNested(rec, mode) ==
  [obj |->
     [isNull |-> FALSE, class |-> "UwbTDoAMeasurement",
      macAddress |-> ByteArrayOf(rec.id, 0, MacAddressLen(mode)),
      ints |-> <<NativeField(rec, "frame_type"), NativeField(rec, "nLos"),
                 NativeField(rec, "aoa_azimuth"),
                 NativeField(rec, "aoa_azimuth_FOM"),
                 NativeField(rec, "aoa_elevation"),
                 NativeField(rec, "aoa_elevation_FOM"),
                 NativeField(rec, "timeStamp"),
                 NativeField(rec, "blink_frame_number")>>,
      rfu |-> ByteArrayOf(rec.id, 1, RfuLen(mode)),
      deviceInfo |-> SizedArray(rec, 6, rec.device_info_size),
      blinkPayloadData |->
        IF rec.device_info_size > 0
        THEN SizedArray(rec, 7, rec.blink_payload_size) ELSE NullRef],
   logs |-> <<>>,
   news |-> 2 + (IF rec.device_info_size > 0 THEN 1 ELSE 0)
              + (IF rec.blink_payload_size > 0 THEN 1 ELSE 0) + 1]

TdoaMeasure(rec, mode) ==
  [obj |->
     [isNull |-> FALSE, class |-> "UwbTDoAMeasurement",
      macAddress |-> ByteArrayOf(rec.id, 0, MacAddressLen(mode)),
      ints |-> <<NativeField(rec, "frame_type"), NativeField(rec, "nLos"),
                 NativeField(rec, "aoa_azimuth"),
                 NativeField(rec, "aoa_azimuth_FOM"),
                 NativeField(rec, "aoa_elevation"),
                 NativeField(rec, "aoa_elevation_FOM"),
                 NativeField(rec, "timeStamp"),
                 NativeField(rec, "blink_frame_number")>>,
      rfu |-> ByteArrayOf(rec.id, 1, RfuLen(mode)),
      deviceInfo |-> SizedArray(rec, 6, rec.device_info_size),
      blinkPayloadData |-> SizedArray(rec, 7, rec.blink_payload_size)],
   logs |-> <<>>,
   news |-> 2 + (IF rec.device_info_size > 0 THEN 1 ELSE 0)
              + (IF rec.blink_payload_size > 0 THEN 1 ELSE 0) + 1]

\* jbyteArray vendorSpecificData of the expanded copy: NULL unless
\* vendor_specific_ntf.len > 0
\* a variant that allocates the array whatever the length is
VendorSpecificDataAlways(ntf) ==
  [array |-> ByteArrayOf(ntf.seed, 8, ntf.vendor_len), logs |-> <<>>,
   news |-> 1]

VendorSpecificData(ntf) ==
  IF ntf.vendor_len > 0
  THEN [array |-> ByteArrayOf(ntf.seed, 8, ntf.vendor_len), logs |-> <<>>,
        news |-> 1]
  ELSE [array |-> NullRef, logs |-> <<"I: No Vendor specific ntf data!">>,
        news |-> 0]

\* (long)x of an unsigned 32-bit x handed over as a J argument: long and
\* jlong are both 64 bits wide (LP64), the value is kept
CastLong(x) == x

\* (int)x of an unsigned 8-bit x handed over as an I argument
CastInt(x) == x % 256

\* an unsigned 8-bit x handed over uncast: promoted to int, and read back by
\* the "<init>" signature ctor as a jint (I) or narrowed to a jbyte (B)
SignatureByte(ctor, x) ==
  IF ctor = "DlTdoa" /\ x % 256 >= 128 THEN (x % 256) - 256 ELSE x % 256

\* env->NewObject(mRangeDataClass, ctor, seq_counter, session_id,
\*   rcr_indication, curr_range_interval, ranging_measure_type,
\*   mac_addr_mode_indicator, no_of_measurements, measures [, vendor])
RangeDataObject(ctor, ntf, measures) ==
  [isNull |-> FALSE, class |-> "UwbRangingData", ctor |-> ctor,
   seq_counter |-> CastLong(ntf.seq_counter),
   session_id |-> CastLong(ntf.session_id),
   rcr_indication |-> CastInt(ntf.rcr_indication),
   curr_range_interval |-> CastLong(ntf.curr_range_interval),
   ranging_measure_type |-> SignatureByte(ctor, ntf.ranging_measure_type),
   mac_addr_mode_indicator |->
     SignatureByte(ctor, ntf.mac_addr_mode_indicator),
   no_of_measurements |-> CastInt(ntf.no_of_measurements),
   measures |-> measures]

\* the same with the vendor payload as the last constructor argument
RangeDataObjectV(ctor, ntf, measures, vendor) ==
  [isNull |-> FALSE, class |-> "UwbRangingData", ctor |-> ctor,
   seq_counter |-> CastLong(ntf.seq_counter),
   session_id |-> CastLong(ntf.session_id),
   rcr_indication |-> CastInt(ntf.rcr_indication),
   curr_range_interval |-> CastLong(ntf.curr_range_interval),
   ranging_measure_type |-> SignatureByte(ctor, ntf.ranging_measure_type),
   mac_addr_mode_indicator |->
     SignatureByte(ctor, ntf.mac_addr_mode_indicator),
   no_of_measurements |-> CastInt(ntf.no_of_measurements),
   measures |-> measures,
   vendorSpecificData |-> vendor]

\* the body of the loop that the copy c runs for the ranging type of ntf
LoopBody(c, ntf, rec) ==
  IF ntf.ranging_measure_type = MEASUREMENT_TYPE_TWOWAY
  THEN TwoWayMeasure(c, rec, ntf.mac_addr_mode_indicator)
  ELSE IF c = "jni_unused"
  THEN DlTdoaMeasure(rec, ntf.mac_addr_mode_indicator)
  ELSE TdoaMeasure(rec, ntf.mac_addr_mode_indicator)

\* the loop "for (i = 0; i < no_of_measurements; i++)" over the union
RECURSIVE LoopTo(_, _, _)
LoopTo(c, ntf, n) ==
  IF n = 0 THEN <<>>
  ELSE Append(LoopTo(c, ntf, n - 1), LoopBody(c, ntf, ntf.measures[n]))

\* MeasureLoop with the index i kept in a static: after a ranging call has
\* run the loop, the next call finds i at the count and copies no record
MeasureLoopStaticIndex(c, ntf) ==
  IF \E k \in DOMAIN calls : calls[k].method = "mOnRangeDataNotificationReceived"
  THEN LoopTo(c, ntf, 0)
  ELSE LoopTo(c, ntf, ntf.no_of_measurements)

MeasureLoop(c, ntf) == LoopTo(c, ntf, ntf.no_of_measurements)

\* a notification object over the array of the measures ms, as the
\* expanded copy constructs it (v: the vendor payload)
ArrayDataV(ctor, ntf, ms, v, classes) ==
  [obj |-> RangeDataObjectV(ctor, ntf, [i \in DOMAIN ms |-> ms[i].obj],
                            v.array),
   logs |-> v.logs \o Flatten([i \in DOMAIN ms |-> ms[i].logs]),
   news |-> v.news + 1 + Sum([i \in DOMAIN ms |-> ms[i].news]) + 1,
   classes |-> classes]

\* the one-way-with-AoA notification object: a single measure m, no array
SingleDataV(ctor, ntf, m, v, classes) ==
  [obj |-> RangeDataObjectV(ctor, ntf, <<m.obj>>, v.array),
   logs |-> v.logs \o m.logs,
   news |-> v.news + m.news + 1,
   classes |-> classes]

\* no notification object: rangeDataObject stays NULL
NoData(v) == [obj |-> NullRef, logs |-> v.logs, news |-> v.news, classes |-> {}]

\* a notification object as the active copy constructs it
ArrayData(ctor, ntf, ms, classes) ==
  [obj |-> RangeDataObject(ctor, ntf, [i \in DOMAIN ms |-> ms[i].obj]),
   logs |-> Flatten([i \in DOMAIN ms |-> ms[i].logs]),
   news |-> 1 + Sum([i \in DOMAIN ms |-> ms[i].news]) + 1,
   classes |-> classes]

\* AssembleUnused with a final else that takes the downlink-TDoA branch
AssembleUnusedFallsBack(ntf) ==
  IF ntf.ranging_measure_type = MEASUREMENT_TYPE_TWOWAY
  THEN ArrayDataV("TwoWay", ntf, MeasureLoop("jni_unused", ntf),
                  VendorSpecificData(ntf),
                  {"mRangingTwoWayMeasuresClass", "mRangeDataClass"})
  ELSE IF ntf.ranging_measure_type = MEASUREMENT_TYPE_OWR_WITH_AOA
  THEN SingleDataV("OwrAoa", ntf,
                   OwrAoaMeasure(ntf.measures[1], ntf.mac_addr_mode_indicator),
                   VendorSpecificData(ntf),
                   {"mRangingOwrAoaMeasuresClass", "mRangeDataClass"})
  ELSE ArrayDataV("DlTdoa", ntf, MeasureLoop("jni_unused", ntf),
                  VendorSpecificData(ntf),
                  {"mRangeDlTdoaMeasuresClass", "mRangeDataClass"})

\* jni_unused: the if / else if / else if over ranging_measure_type; with
\* none of the three tags rangeDataObject stays NULL.  classes: the cached
\* class descriptors the branch constructs from
AssembleUnused(ntf) ==
  IF ntf.ranging_measure_type = MEASUREMENT_TYPE_TWOWAY
  THEN ArrayDataV("TwoWay", ntf, MeasureLoop("jni_unused", ntf),
                  VendorSpecificData(ntf),
                  {"mRangingTwoWayMeasuresClass", "mRangeDataClass"})
  ELSE IF ntf.ranging_measure_type = MEASUREMENT_TYPE_DLTDOA
  THEN ArrayDataV("DlTdoa", ntf, MeasureLoop("jni_unused", ntf),
                  VendorSpecificData(ntf),
                  {"mRangeDlTdoaMeasuresClass", "mRangeDataClass"})
  ELSE IF ntf.ranging_measure_type = MEASUREMENT_TYPE_OWR_WITH_AOA
  THEN SingleDataV("OwrAoa", ntf,
                   OwrAoaMeasure(ntf.measures[1], ntf.mac_addr_mode_indicator),
                   VendorSpecificData(ntf),
                   {"mRangingOwrAoaMeasuresClass", "mRangeDataClass"})
  ELSE NoData(VendorSpecificData(ntf))

\* jni: two-way, or else the TDoA schema whatever the tag is
AssembleActive(ntf) ==
  IF ntf.ranging_measure_type = MEASUREMENT_TYPE_TWOWAY
  THEN ArrayData("TwoWay", ntf, MeasureLoop("jni", ntf),
                  {"mRangingTwoWayMeasuresClass", "mRangeDataClass"})
  ELSE ArrayData("Tdoa", ntf, MeasureLoop("jni", ntf),
                 {"mRangeTdoaMeasuresClass", "mRangeDataClass"})

\* the end of the ranging entry point: jni_unused calls the listener only
\* with a non-NULL rangeDataObject, jni with whatever was assembled
RangeDeliver(obj, rt) ==
  IF copy = "jni_unused" /\ obj.isNull
  THEN [calls |-> <<>>, logs |-> <<"E: rangeDataNtf MID is NULL">>]
  ELSE CallVoidMethod("mOnRangeDataNotificationReceived", <<obj>>, rt,
                      "E: fail to send range data",
                      "E: rangeDataNtf MID is NULL")

\* the return of the ranging entry point after the listener call r
RangeReturn(a, b, r) ==
  Return(a, TRUE, r.calls, b.logs \o r.logs, b.news, b.obj, "returned")

\* the return when a construction met a NULL class descriptor
RangeReturnUB(a, r, o) ==
  IF o = "crashed"
  THEN Return(a, TRUE, <<>>, <<>>, 0, NullRef, o)
  ELSE Return(a, TRUE, r.calls, r.logs, 0, NullRef, o)

\* UwbEventManager::onRangeDataNotificationReceived with the assembly b.
\* Constructing from a class descriptor that is still NULL is undefined:
\* the process dies, or the constructions give NULL and the call goes on
RangeBody(a, b, rt) ==
  IF ~ScopedJniEnv(mVm, rt)
  THEN Return(a, FALSE, <<>>, <<"E: jni env is null">>, 0, NullRef, "returned")
  ELSE IF rt = Raises /\ ~b.obj.isNull
  THEN IF copy = "jni" /\ mMethods["mOnRangeDataNotificationReceived"]
       THEN CallRaised(a, "mOnRangeDataNotificationReceived", b.news - 1,
                       "E: fail to send range data")
       ELSE ReturnRaised(a, b.logs \o <<"E: rangeDataNtf MID is NULL">>,
                         b.news - 1)
  ELSE IF \E f \in b.classes : ~mClasses[f]
  THEN \E o \in UBOutcomes : RangeReturnUB(a, RangeDeliver(NullRef, rt), o)
  ELSE RangeReturn(a, b, RangeDeliver(b.obj, rt))

onRangeDataNotificationReceived(ntf, rt) ==
  /\ pc = "idle"
  /\ RangeBody([op |-> "onRangeDataNotificationReceived", ntf |-> ntf,
                rt |-> rt],
               IF copy = "jni_unused" THEN AssembleUnused(ntf)
               ELSE AssembleActive(ntf),
               rt)

(***************************************************************************)
(* The inputs the native stack hands over in Spec.                         *)
(***************************************************************************)
\* message-control words: tx 64 bit, rx 40 bit, relative anchor location and
\* 3 active rounds; every selector unknown; rx 64 bit, WGS84 and 1 round
CtlSamples == <<450, 116, 168>>

Seeds == 0..2

SampleRecord(seed, i) ==
  [id |-> seed + i,
   message_control |-> CtlSamples[((seed + i) % 3) + 1],
   device_info_size |-> IF (seed + i) % 2 = 0 THEN 0 ELSE 3,
   blink_payload_size |-> IF (seed + i) % 3 = 0 THEN 0 ELSE 2]

RangeNtf(type, mode, n, seed, vlen) ==
  [seq_counter |-> 5, session_id |-> 9, rcr_indication |-> 1,
   curr_range_interval |-> 200,
   ranging_measure_type |-> type, mac_addr_mode_indicator |-> mode,
   no_of_measurements |-> n,
   measures |-> [i \in 1..MaxMeasurements |-> SampleRecord(seed, i)],
   seed |-> seed, vendor_len |-> vlen]

RangeNtfs ==
  {RangeNtf(type, mode, n, seed, vlen) :
     type \in {MEASUREMENT_TYPE_ONEWAY, MEASUREMENT_TYPE_TWOWAY,
               MEASUREMENT_TYPE_DLTDOA, MEASUREMENT_TYPE_OWR_WITH_AOA},
     mode \in {SHORT_MAC_ADDRESS, EXTENDED_MAC_ADDRESS},
     n \in 0..MaxMeasurements, seed \in Seeds, vlen \in {0, 2}}

Payloads == {NullRef} \cup {[isNull |-> FALSE, seed |-> s] : s \in {1, 2}}

MulticastNtfs ==
  {NullRef} \cup
  {[isNull |-> FALSE, session_id |-> 9, remaining_list |-> 1,
    no_of_controlees |-> n, seed |-> s] :
     n \in 0..(MAX_NUM_CONTROLLEES + 1), s \in {1, 2}}

\* the caller takes control back after a call that returned, and the record
\* of that call is dropped; after a crash there is no caller left
NativeResume ==
  /\ pc = "returned"
  /\ outcome = "returned"
  /\ arg' = NoCall
  /\ env' = FALSE
  /\ calls' = <<>>
  /\ logs' = <<>>
  /\ nNew' = 0
  /\ managed' = NullRef
  /\ outcome' = "returned"
  /\ pc' = "idle"
  /\ nth' = 0
  /\ UNCHANGED <<mgrVars, pending, threads>>

Next ==
  \/ NativeResume
  \/ \E clazz \in BOOLEAN, missing \in LookupFailures(copy) :
       doLoadSymbols(clazz, missing)
  \/ \E ntf \in RangeNtfs, rt \in Runtime :
       onRangeDataNotificationReceived(ntf, rt)
  \/ \E data \in Payloads, length \in {0, 3}, rt \in Runtime :
       onRawUciNotificationReceived(data, length, rt)
  \/ \E state \in {0, 2}, reasonCode \in {0, 1}, rt \in Runtime :
       onSessionStatusNotificationReceived(9, state, reasonCode, rt)
  \/ \E state \in {1, 2}, rt \in Runtime :
       onDeviceStateNotificationReceived(state, rt)
  \/ \E state \in {1, 2}, rt \in Runtime :
       onCoreGenericErrorNotificationReceived(state, rt)
  \/ \E ntf \in MulticastNtfs, rt \in Runtime :
       onMulticastListUpdateNotificationReceived(ntf, rt)
  \/ \E status \in {0, 1}, rt \in Runtime :
       onBlinkDataTxNotificationReceived(status, rt)
  \/ \E gid \in {9, 12}, data \in Payloads, length \in {0, 2}, rt \in Runtime :
       onVendorUciNotificationReceived(gid, 1, data, length, rt)
  \/ \E data \in Payloads, length \in {0, 2}, rt \in Runtime :
       onVendorDeviceInfo(data, length, rt)

Spec == Init /\ [][Next]_vars

(***************************************************************************)
(* SpecControl: the expanded copy handed downlink-TDoA notifications of    *)
(* one record with every 16-bit message-control word.                      *)
(***************************************************************************)
ControlNtf(ctl, mode) ==
  [seq_counter |-> 5, session_id |-> 9, rcr_indication |-> 1,
   curr_range_interval |-> 200,
   ranging_measure_type |-> MEASUREMENT_TYPE_DLTDOA,
   mac_addr_mode_indicator |-> mode,
   no_of_measurements |-> 1,
   measures |-> <<[id |-> 1, message_control |-> ctl,
                   device_info_size |-> 0, blink_payload_size |-> 0]>>,
   seed |-> 1, vendor_len |-> 0]

NextControl ==
  \/ NativeResume
  \/ doLoadSymbols(TRUE, {})
  \/ /\ pc = "idle"
     /\ copy = "jni_unused"
     /\ \E ctl \in UINT16_RANGE :
          onRangeDataNotificationReceived(ControlNtf(ctl, SHORT_MAC_ADDRESS),
                                          "ok")

SpecControl == Init /\ [][NextControl]_vars

(***************************************************************************)
(* SpecAddress: both copies handed ranging notifications of one record     *)
(* with every value of the 8-bit address-mode flag.                        *)
(***************************************************************************)
NextAddress ==
  \/ NativeResume
  \/ doLoadSymbols(TRUE, {})
  \/ /\ pc = "idle"
     /\ \E mode \in UINT8_RANGE, seed \in Seeds,
           type \in {MEASUREMENT_TYPE_ONEWAY, MEASUREMENT_TYPE_TWOWAY,
                     MEASUREMENT_TYPE_DLTDOA, MEASUREMENT_TYPE_OWR_WITH_AOA} :
          onRangeDataNotificationReceived(RangeNtf(type, mode, 1, seed, 0),
                                          "ok")

SpecAddress == Init /\ [][NextAddress]_vars

(***************************************************************************)
(* SpecFields: both copies handed ranging notifications whose              *)
(* notification-level fields take the ends and the middle of their ranges. *)
(***************************************************************************)
FieldNtf(seq, sid, rcr, interval, type, mode, n) ==
  [RangeNtf(type, mode, n, 1, 0) EXCEPT
     !.seq_counter = seq, !.session_id = sid, !.rcr_indication = rcr,
     !.curr_range_interval = interval]

\* 2147483647: the largest value of a 32-bit field that TLC represents
FieldNtfs ==
  {FieldNtf(seq, sid, rcr, interval, type, mode, n) :
     seq \in {0, 5, 2147483647}, sid \in {9, 2147483647}, rcr \in {0, 255},
     interval \in {0, 200},
     type \in {MEASUREMENT_TYPE_ONEWAY, MEASUREMENT_TYPE_TWOWAY,
               MEASUREMENT_TYPE_DLTDOA, MEASUREMENT_TYPE_OWR_WITH_AOA,
               4, 255},
     mode \in {SHORT_MAC_ADDRESS, EXTENDED_MAC_ADDRESS, 128, 255},
     n \in 0..MaxMeasurements}

NextFields ==
  \/ NativeResume
  \/ doLoadSymbols(TRUE, {})
  \/ /\ pc = "idle"
     /\ \E ntf \in FieldNtfs : onRangeDataNotificationReceived(ntf, "ok")

SpecFields == Init /\ [][NextFields]_vars

(***************************************************************************)
(* SpecThreads: one doLoadSymbols call and notification calls on other     *)
(* native threads, interleaved; every read and every write of a field of   *)
(* the manager is a step of its own.  Thread 1 runs doLoadSymbols, the     *)
(* other threads run the ranging, the multicast and the device-state entry *)
(* point.  A thread inside an entry point is a record                      *)
(*   at       "load", "env", "classes", "mid", "call", "done", "crashed"   *)
(*   op, rt   the entry point and what the runtime does during the call    *)
(*   input    the struct or value the entry point was handed               *)
(*   todo     the fields still to write (load) or the class descriptors    *)
(*            still to construct from (classes), in the order of the code  *)
(*   settled  doLoadSymbols had returned, with a class, before the entry   *)
(*   nullClass  a construction was handed a class descriptor that was NULL *)
(*   out      the listener invocations the call made                       *)
(***************************************************************************)
Loader == 1
Notifiers == ThreadIds \ {Loader}

\* the writes of doLoadSymbols in the order of the code, per copy
LoadWrites(c, clazz) ==
  IF ~clazz THEN <<"mVm">>
  ELSE IF c = "jni"
  THEN <<"mVm", "mClass", "mObject",
         "mOnDeviceStateNotificationReceived",
         "mOnRangeDataNotificationReceived",
         "mOnSessionStatusNotificationReceived",
         "mOnCoreGenericErrorNotificationReceived",
         "mOnMulticastListUpdateNotificationReceived",
         "mRangeDataClass", "mRangingTwoWayMeasuresClass",
         "mRangeTdoaMeasuresClass", "mMulticastUpdateListDataClass">>
  ELSE <<"mVm", "mClass", "mObject",
         "mOnDeviceStateNotificationReceived",
         "mOnRangeDataNotificationReceived",
         "mOnSessionStatusNotificationReceived",
         "mOnCoreGenericErrorNotificationReceived", "mOnDataReceived",
         "mOnMulticastListUpdateNotificationReceived",
         "mOnRawUciNotificationReceived", "mOnVendorUciNotificationReceived",
         "mOnVendorDeviceInfo",
         "mRangeDataClass", "mRangingTwoWayMeasuresClass",
         "mRangeDlTdoaMeasuresClass", "mRangingOwrAoaMeasuresClass",
         "mMulticastUpdateListDataClass">>

\* doLoadSymbols has returned on the loader thread, having found the class
\* of the listener
SetupDone ==
  /\ threads[Loader].at = "done"
  /\ threads[Loader].clazz

\* the class descriptors a ranging notification constructs from, in the
\* order of the code: the array and each record from the measure class,
\* then the notification object from mRangeDataClass
RangeClassReads(c, ntf) ==
  LET measure ==
        IF ntf.ranging_measure_type = MEASUREMENT_TYPE_TWOWAY
        THEN "mRangingTwoWayMeasuresClass"
        ELSE IF c = "jni" THEN "mRangeTdoaMeasuresClass"
        ELSE IF ntf.ranging_measure_type = MEASUREMENT_TYPE_DLTDOA
        THEN "mRangeDlTdoaMeasuresClass"
        ELSE "mRangingOwrAoaMeasuresClass"
  IN IF c = "jni_unused"
        /\ ntf.ranging_measure_type \notin
             {MEASUREMENT_TYPE_TWOWAY, MEASUREMENT_TYPE_DLTDOA,
              MEASUREMENT_TYPE_OWR_WITH_AOA}
     THEN <<>>
     ELSE IF c = "jni_unused"
             /\ ntf.ranging_measure_type = MEASUREMENT_TYPE_OWR_WITH_AOA
     THEN <<measure, "mRangeDataClass">>
     ELSE <<measure>> \o [i \in 1..ntf.no_of_measurements |-> measure]
          \o <<"mRangeDataClass">>

\* the class descriptors an entry point constructs from
ClassReads(c, op, input) ==
  IF op = "onRangeDataNotificationReceived" THEN RangeClassReads(c, input)
  ELSE IF op = "onMulticastListUpdateNotificationReceived"
  THEN <<"mMulticastUpdateListDataClass">>
  ELSE <<>>

\* the checks of the arguments after the env was taken end the call
Rejected(c, op, input) ==
  /\ op = "onMulticastListUpdateNotificationReceived"
  /\ \/ input.isNull
     \/ c = "jni_unused" /\ input.no_of_controlees > MAX_NUM_CONTROLLEES

\* what the entry point hands to the listener: the object it assembled, NULL
\* when a construction had a NULL class descriptor, or the primitive value
ThreadArgs(c, th) ==
  IF th.op = "onDeviceStateNotificationReceived" THEN <<th.input>>
  ELSE IF th.nullClass THEN <<NullRef>>
  ELSE IF th.op = "onRangeDataNotificationReceived"
  THEN <<(IF c = "jni_unused" THEN AssembleUnused(th.input)
          ELSE AssembleActive(th.input)).obj>>
  ELSE <<MulticastObject(c, th.input, 0, 0)>>

\* the test and the call at the end of the entry point, on the fields as
\* they are now
ThreadDeliver(c, th) ==
  IF th.op = "onRangeDataNotificationReceived"
  THEN RangeDeliver(ThreadArgs(c, th)[1], th.rt)
  ELSE CallVoidMethod(MethodOf(th.op), ThreadArgs(c, th), th.rt, "E", "E")

\* a step of a thread: only threads and the listener's record change
ThreadStep(t, th, c) ==
  /\ threads' = [threads EXCEPT ![t] = th]
  /\ calls' = calls \o Received(c, t, th)
  /\ UNCHANGED <<mgrVars, arg, env, logs, nNew, managed, outcome, pc,
                 pending, nth>>

\* the native side calls doLoadSymbols on the loader thread, once
ThreadLoadSymbols(clazz, missing) ==
  /\ threads[Loader] = Outside
  /\ ThreadStep(Loader,
                [at |-> "load", op |-> "doLoadSymbols", clazz |-> clazz,
                 missing |-> missing, todo |-> LoadWrites(copy, clazz)],
                <<>>)

\* the next write of doLoadSymbols
ThreadLoad ==
  /\ threads[Loader].at = "load"
  /\ LET th == threads[Loader]
         f == Head(th.todo)
     IN /\ mVm' = (IF f = "mVm" THEN TRUE ELSE mVm)
        /\ mClass' = (IF f = "mClass" THEN TRUE ELSE mClass)
        /\ mObject' = (IF f = "mObject" THEN TRUE ELSE mObject)
        /\ mMethods' = (IF f \in MethodFields
                        THEN [mMethods EXCEPT ![f] = f \notin th.missing]
                        ELSE mMethods)
        /\ mClasses' = (IF f \in ClassFields
                        THEN [mClasses EXCEPT ![f] = TRUE]
                        ELSE mClasses)
        /\ threads' = [threads EXCEPT ![Loader] =
                         [th EXCEPT !.todo = Tail(th.todo),
                                    !.at = IF Len(th.todo) = 1 THEN "done"
                                           ELSE "load"]]
  /\ UNCHANGED <<copy, arg, env, calls, logs, nNew, managed, outcome, pc,
                 pending, nth>>

\* the native side calls a notification entry point on thread t
ThreadEnter(t, op, input, rt) ==
  /\ t \in Notifiers
  /\ threads[t] = Outside
  /\ ThreadStep(t, [at |-> "env", op |-> op, input |-> input, rt |-> rt,
                    todo |-> <<>>, settled |-> SetupDone,
                    nullClass |-> FALSE, out |-> <<>>],
                <<>>)

\* ScopedJniEnv env(mVm); if (env == NULL) return; and the argument checks
ThreadEnv(t) ==
  /\ threads[t].at = "env"
  /\ LET th == threads[t]
         todo == ClassReads(copy, th.op, th.input)
     IN IF ~ScopedJniEnv(mVm, th.rt) \/ Rejected(copy, th.op, th.input)
        THEN ThreadStep(t, [th EXCEPT !.at = "done"], <<>>)
        ELSE ThreadStep(t, [th EXCEPT !.todo = todo,
                                      !.at = IF todo = <<>> THEN "mid"
                                             ELSE "classes"],
                        <<>>)

\* the next construction: it reads its class descriptor.  From a NULL
\* descriptor the process dies, or the construction gives NULL
ThreadClass(t) ==
  /\ threads[t].at = "classes"
  /\ LET th == threads[t]
         null == th.nullClass \/ ~mClasses[Head(th.todo)]
         next == [th EXCEPT !.todo = Tail(th.todo), !.nullClass = null,
                            !.at = IF Len(th.todo) = 1 THEN "mid"
                                   ELSE "classes"]
     IN IF mClasses[Head(th.todo)]
        THEN ThreadStep(t, next, <<>>)
        ELSE \/ ThreadStep(t, next, <<>>)
             \/ ThreadStep(t, [next EXCEPT !.at = "crashed"], <<>>)

\* if (mOn... != NULL): the read of the jmethodID field
ThreadMethod(t) ==
  /\ threads[t].at = "mid"
  /\ LET th == threads[t]
     IN IF ThreadDeliver(copy, th).calls = <<>>
        THEN ThreadStep(t, [th EXCEPT !.at = "done"], <<>>)
        ELSE ThreadStep(t, [th EXCEPT !.at = "call"], <<>>)

\* ThreadCall of a handler that clears its callback entry point after the
\* call
ThreadCallUnregisters(t) ==
  /\ threads[t].at = "call"
  /\ LET th == threads[t]
         r == ThreadDeliver(copy, th)
     IN /\ threads' = [threads EXCEPT ![t] =
                         [th EXCEPT !.at = "done", !.out = r.calls]]
        /\ calls' = calls \o Received(r.calls, t, th)
        /\ mMethods' = [mMethods EXCEPT ![MethodOf(th.op)] = FALSE]
        /\ UNCHANGED <<copy, mVm, mClass, mObject, mClasses, arg, env, logs,
                       nNew, managed, outcome, pc, pending, nth>>

\* env->CallVoidMethod(mObject, mOn..., object): the reads of mObject and of
\* the jmethodID field, and the call
ThreadCall(t) ==
  /\ threads[t].at = "call"
  /\ LET th == threads[t]
         r == ThreadDeliver(copy, th)
     IN ThreadStep(t, [th EXCEPT !.at = "done", !.out = r.calls], r.calls)

\* the calls of the notifier threads have ended: the native side takes
\* control back and the listener's record is read and emptied
ThreadsResume ==
  /\ \A t \in Notifiers : threads[t].at = "done"
  /\ threads' = [t \in ThreadIds |->
                   IF t \in Notifiers THEN Outside ELSE threads[t]]
  /\ calls' = <<>>
  /\ UNCHANGED <<mgrVars, arg, env, logs, nNew, managed, outcome, pc,
                 pending, nth>>

\* the notifications of the interleaved calls
ThreadRangeNtfs ==
  {ntf \in RangeNtfs :
     /\ ntf.seed = 1 /\ ntf.vendor_len = 0
     /\ ntf.mac_addr_mode_indicator = SHORT_MAC_ADDRESS
     /\ ntf.no_of_measurements = 1
     /\ ntf.ranging_measure_type \in
          {MEASUREMENT_TYPE_TWOWAY, MEASUREMENT_TYPE_DLTDOA}}

\* jni reads past the native arrays when the count is above the maximum:
\* it is handed counts within the maximum only
ThreadMulticastNtfs(c) ==
  {ntf \in MulticastNtfs :
     /\ ~ntf.isNull /\ ntf.seed = 1
     /\ ntf.no_of_controlees \in {1, MAX_NUM_CONTROLLEES + 1}
     /\ c = "jni" => ntf.no_of_controlees <= MAX_NUM_CONTROLLEES}

NextThreads ==
  \/ \E clazz \in BOOLEAN,
        missing \in {{}, {"mOnRangeDataNotificationReceived"}} :
       ThreadLoadSymbols(clazz, missing)
  \/ ThreadLoad
  \/ \E t \in Notifiers, ntf \in ThreadRangeNtfs, rt \in {"ok", "noenv"} :
       ThreadEnter(t, "onRangeDataNotificationReceived", ntf, rt)
  \/ \E t \in Notifiers, ntf \in ThreadMulticastNtfs(copy) :
       ThreadEnter(t, "onMulticastListUpdateNotificationReceived", ntf, "ok")
  \/ \E t \in Notifiers :
       ThreadEnter(t, "onDeviceStateNotificationReceived", 1, "ok")
  \/ \E t \in Notifiers : ThreadEnv(t)
  \/ \E t \in Notifiers : ThreadClass(t)
  \/ \E t \in Notifiers : ThreadMethod(t)
  \/ \E t \in Notifiers : ThreadCall(t)
  \/ ThreadsResume

SpecThreads == Init /\ [][NextThreads]_vars

(***************************************************************************)
(* SpecSequence: one native thread makes up to MaxCalls calls in a row,    *)
(* and the listener keeps its record of the invocations across them.       *)
(***************************************************************************)
MaxCalls == 4

\* the caller takes control back after a call that returned and goes on to
\* its next call; the listener's record is kept
NativeContinue ==
  /\ pc = "returned"
  /\ outcome = "returned"
  /\ nth < MaxCalls
  /\ arg' = NoCall
  /\ env' = FALSE
  /\ logs' = <<>>
  /\ nNew' = 0
  /\ managed' = NullRef
  /\ outcome' = "returned"
  /\ pc' = "idle"
  /\ UNCHANGED <<mgrVars, calls, pending, nth, threads>>

Outcomes == {"ok", "throws"}

\* the inputs of the sequence: one of each kind
SequenceRangeNtf ==
  CHOOSE ntf \in RangeNtfs :
    ntf = RangeNtf(MEASUREMENT_TYPE_TWOWAY, SHORT_MAC_ADDRESS, 1, 1, 0)

SequenceMulticastNtf ==
  CHOOSE ntf \in MulticastNtfs :
    ntf = [isNull |-> FALSE, session_id |-> 9, remaining_list |-> 1,
           no_of_controlees |-> 1, seed |-> 1]

SequencePayload == CHOOSE data \in Payloads : data = [isNull |-> FALSE, seed |-> 2]

NextSequence ==
  \/ NativeContinue
  \/ doLoadSymbols(TRUE, {})
  \/ \E rt \in Outcomes :
       onRangeDataNotificationReceived(SequenceRangeNtf, rt)
  \/ \E rt \in Outcomes : onRawUciNotificationReceived(SequencePayload, 3, rt)
  \/ \E rt \in Outcomes : onSessionStatusNotificationReceived(9, 2, 0, rt)
  \/ \E rt \in Outcomes : onDeviceStateNotificationReceived(1, rt)
  \/ \E rt \in Outcomes : onCoreGenericErrorNotificationReceived(2, rt)
  \/ \E rt \in Outcomes :
       onMulticastListUpdateNotificationReceived(SequenceMulticastNtf, rt)
  \/ \E rt \in Outcomes : onBlinkDataTxNotificationReceived(0, rt)
  \/ \E rt \in Outcomes :
       onVendorUciNotificationReceived(9, 1, SequencePayload, 2, rt)
  \/ \E rt \in Outcomes : onVendorDeviceInfo(SequencePayload, 2, rt)

SpecSequence == Init /\ [][NextSequence]_vars

(***************************************************************************)
(* SpecTwice: one native thread hands the ranging entry point              *)
(* notifications of every measurement type and address mode, more than     *)
(* once and with other notifications in between; the listener keeps its    *)
(* record.                                                                 *)
(***************************************************************************)
TwiceRangeNtfs ==
  {ntf \in RangeNtfs :
     ntf.seed \in {1, 2} /\ ntf.vendor_len = 2 /\ ntf.no_of_measurements = 2}

NextTwice ==
  \/ NativeContinue
  \/ doLoadSymbols(TRUE, {})
  \/ /\ pc = "idle"
     /\ \E ntf \in TwiceRangeNtfs : onRangeDataNotificationReceived(ntf, "ok")
  \/ onDeviceStateNotificationReceived(1, "ok")

SpecTwice == Init /\ [][NextTwice]_vars

(***************************************************************************)
(* SpecSizes: ranging notifications of one record whose device-info and    *)
(* blink-payload sizes take every combination, under both address modes.   *)
(***************************************************************************)
DeviceInfoSizes == {0, 1, 3}
BlinkPayloadSizes == {0, 2}

SizeNtfs ==
  {[RangeNtf(type, mode, 1, seed, 0)
      EXCEPT !.measures[1].device_info_size = d,
             !.measures[1].blink_payload_size = b] :
     type \in {MEASUREMENT_TYPE_ONEWAY, MEASUREMENT_TYPE_TWOWAY,
               MEASUREMENT_TYPE_DLTDOA},
     mode \in {SHORT_MAC_ADDRESS, EXTENDED_MAC_ADDRESS},
     seed \in {0, 1},
     d \in DeviceInfoSizes, b \in BlinkPayloadSizes}

NextSizes ==
  \/ NativeResume
  \/ doLoadSymbols(TRUE, {})
  \/ /\ pc = "idle"
     /\ \E ntf \in SizeNtfs : onRangeDataNotificationReceived(ntf, "ok")

SpecSizes == Init /\ [][NextSizes]_vars

(***************************************************************************)
(* SpecConstruct: one native thread calls the ranging and the multicast    *)
(* entry point, with the callback resolved or not, and the construction of *)
(* the object to deliver succeeds or raises.                               *)
(***************************************************************************)
ConstructRangeNtfs ==
  {ntf \in RangeNtfs :
     /\ ntf.seed = 1 /\ ntf.vendor_len = 0 /\ ntf.no_of_measurements = 1
     /\ ntf.mac_addr_mode_indicator = SHORT_MAC_ADDRESS}

NextConstruct ==
  \/ NativeContinue
  \/ \E missing \in {{}, {"mOnRangeDataNotificationReceived"},
                      {"mOnMulticastListUpdateNotificationReceived"}} :
       doLoadSymbols(TRUE, missing)
  \/ /\ pc = "idle"
     /\ \E ntf \in ConstructRangeNtfs, rt \in {"ok", "throws", Raises} :
          onRangeDataNotificationReceived(ntf, rt)
  \/ \E rt \in {"ok", "throws", Raises} :
       onMulticastListUpdateNotificationReceived(SequenceMulticastNtf, rt)

SpecConstruct == Init /\ [][NextConstruct]_vars

(***************************************************************************)
(* Vocabulary of the properties.                                           *)
(***************************************************************************)
\* a notification entry point has just ended
NotificationEnded ==
  pc = "returned" /\ arg.op \notin {"none", "doLoadSymbols"}

\* the arguments of the call that has just ended are well formed
ValidArguments ==
  CASE arg.op = "onRangeDataNotificationReceived" ->
         copy = "jni_unused" =>
           arg.ntf.ranging_measure_type \in
             {MEASUREMENT_TYPE_TWOWAY, MEASUREMENT_TYPE_DLTDOA,
              MEASUREMENT_TYPE_OWR_WITH_AOA}
    [] arg.op \in {"onRawUciNotificationReceived", "onVendorDeviceInfo"} ->
         ~arg.data.isNull /\ arg.length > 0
    [] arg.op = "onVendorUciNotificationReceived" ->
         ~(arg.data.isNull /\ arg.length > 0)
    [] arg.op = "onMulticastListUpdateNotificationReceived" ->
         ~arg.ntf.isNull /\ arg.ntf.no_of_controlees <= MAX_NUM_CONTROLLEES
    [] OTHER -> TRUE

IsArrayOfLen(a, n) == ~a.isNull /\ Len(a.elems) = n

Count(seq, x) == Cardinality({i \in DOMAIN seq : seq[i] = x})

\* the ranging entry point of the expanded copy has just assembled a
\* downlink-TDoA notification
DlTdoaAssembled ==
  /\ pc = "returned"
  /\ arg.op = "onRangeDataNotificationReceived"
  /\ copy = "jni_unused"
  /\ arg.ntf.ranging_measure_type = MEASUREMENT_TYPE_DLTDOA
  /\ ~managed.isNull

\* the input records of the notification just handled, and their number
InRecord(i) == arg.ntf.measures[i]
InCount == arg.ntf.no_of_measurements

\* the bit groups of a control word, by arithmetic: bits 1-2, 3-4, 5-6, 7-10
TxBits(ctl) == ((ctl \div 2) % 4) * 2
RxBits(ctl) == ((ctl \div 8) % 4) * 8
AnchorBits(ctl) == ((ctl \div 32) % 4) * 32
RoundBits(ctl) == (ctl \div 128) % 16

(***************************************************************************)
(* C1: a notification entry point called with an obtainable env, a         *)
(* resolved callback of its kind and valid arguments returns after calling *)
(* the listener exactly once, through the callback of its own kind.        *)
(***************************************************************************)
C1_DeliveredExactlyOnce ==
  (/\ NotificationEnded
   /\ ScopedJniEnv(mVm, arg.rt)
   /\ mMethods[MethodOf(arg.op)]
   /\ ValidArguments)
  => /\ outcome = "returned"
     /\ Len(calls) = 1
     /\ calls[1].method = MethodOf(arg.op)

C1_Witness ==
  /\ NotificationEnded
  /\ arg.op = "onVendorDeviceInfo"
  /\ Len(calls) = 1
  /\ calls[1].method = "mOnVendorDeviceInfo"

(***************************************************************************)
(* C2: after a doLoadSymbols in which the listener class is obtained and   *)
(* every lookup succeeds, the callback of every entry point the copy has   *)
(* is resolved.                                                            *)
(***************************************************************************)
C2_EveryHandlerResolved ==
  (/\ pc = "returned"
   /\ arg.op = "doLoadSymbols"
   /\ arg.clazz
   /\ arg.missing = {})
  => \A f \in HandlerMethods(copy) : mMethods[f]

(***************************************************************************)
(* C3: tx-bits (control & 0x06) of 0 give a 5-byte tx-timestamp, 2 an      *)
(* 8-byte one, 4 and 6 no tx-timestamp and one error trace per such record.*)
(***************************************************************************)
C3_TxTimestamp ==
  DlTdoaAssembled =>
    /\ \A i \in 1..InCount :
         LET b == TxBits(InRecord(i).message_control)
             f == managed.measures[i].txTimeStamp
         IN /\ b = 0 => IsArrayOfLen(f, 5)
            /\ b = 2 => IsArrayOfLen(f, 8)
            /\ b \in {4, 6} => f.isNull
    /\ Count(logs, "E: Invalid dlTdoaTxTimeStamp")
         = Cardinality({i \in 1..InCount :
                          TxBits(InRecord(i).message_control) \in {4, 6}})

C3_Witness ==
  /\ DlTdoaAssembled
  /\ InCount = 1
  /\ InRecord(1).message_control = 33029
  /\ managed.measures[1].txTimeStamp.isNull
  /\ Count(logs, "E: Invalid dlTdoaTxTimeStamp") = 1

(***************************************************************************)
(* C4: rx-bits (control & 0x18) of 0 give a 5-byte rx-timestamp, 8 an      *)
(* 8-byte one, 0x10 and 0x18 no rx-timestamp and one error trace per such  *)
(* record.                                                                 *)
(***************************************************************************)
C4_RxTimestamp ==
  DlTdoaAssembled =>
    /\ \A i \in 1..InCount :
         LET b == RxBits(InRecord(i).message_control)
             f == managed.measures[i].rxTimeStamp
         IN /\ b = 0 => IsArrayOfLen(f, 5)
            /\ b = 8 => IsArrayOfLen(f, 8)
            /\ b \in {16, 24} => f.isNull
    /\ Count(logs, "E: Invalid dlTdoaRxTimeStamp")
         = Cardinality({i \in 1..InCount :
                          RxBits(InRecord(i).message_control) \in {16, 24}})

C4_Witness ==
  /\ DlTdoaAssembled
  /\ InCount = 1
  /\ RxBits(InRecord(1).message_control) = 8
  /\ TxBits(InRecord(1).message_control) = 6
  /\ IsArrayOfLen(managed.measures[1].rxTimeStamp, 8)

(***************************************************************************)
(* C5: anchor-bits (control & 0x60) of 0 give no anchor location and no    *)
(* error trace, 0x40 gives 10 bytes, 0x20 gives 12 bytes, 0x60 gives no    *)
(* anchor location and one error trace per such record.                    *)
(***************************************************************************)
C5_AnchorLocation ==
  DlTdoaAssembled =>
    /\ \A i \in 1..InCount :
         LET b == AnchorBits(InRecord(i).message_control)
             f == managed.measures[i].anchorLocation
         IN /\ b = 0 => f.isNull
            /\ b = 64 => IsArrayOfLen(f, 10)
            /\ b = 32 => IsArrayOfLen(f, 12)
            /\ b = 96 => f.isNull
    /\ Count(logs, "E: Invalid dlTdoaAnchorLocation")
         = Cardinality({i \in 1..InCount :
                          AnchorBits(InRecord(i).message_control) = 96})

C5_Witness ==
  /\ DlTdoaAssembled
  /\ InCount = 1
  /\ AnchorBits(InRecord(1).message_control) = 64
  /\ IsArrayOfLen(managed.measures[1].anchorLocation, 10)
  /\ Count(logs, "E: Invalid dlTdoaAnchorLocation") = 0

(***************************************************************************)
(* C6: the active-ranging-round field has (control & 0x0780) >> 7 bytes,   *)
(* a number in 0..15 that no bit outside 0x0780 changes; with 0 the field  *)
(* is absent rather than an empty array.                                   *)
(***************************************************************************)
C6_ActiveRangingRound ==
  DlTdoaAssembled =>
    \A i \in 1..InCount :
      LET n == RoundBits(InRecord(i).message_control)
          f == managed.measures[i].activeRangingRound
      IN /\ n \in 0..15
         /\ n = 0 => f.isNull
         /\ n > 0 => IsArrayOfLen(f, n)

C6_Witness ==
  /\ DlTdoaAssembled
  /\ InCount = 1
  /\ InRecord(1).message_control = 65535
  /\ IsArrayOfLen(managed.measures[1].activeRangingRound, 15)

(***************************************************************************)
(* C7: each of the four sub-fields of a downlink-TDoA record is what its   *)
(* own bit group alone decodes to, whatever the other groups say; a record *)
(* with an unrecognised selector is still placed in the list, and the      *)
(* notification is still handed to the resolved callback.                  *)
(***************************************************************************)
OnlyGroup(rec, bits) == [rec EXCEPT !.message_control = bits]

C7_SubFieldsIndependent ==
  (DlTdoaAssembled /\ mMethods["mOnRangeDataNotificationReceived"]) =>
    /\ Len(calls) = 1
    /\ calls[1].args = <<managed>>
    /\ Len(managed.measures) = InCount
    /\ \A i \in 1..InCount :
         LET rec == InRecord(i)
             ctl == rec.message_control
             m == managed.measures[i]
         IN /\ ~m.isNull
            /\ m.txTimeStamp = TxTimeStamp(OnlyGroup(rec, TxBits(ctl))).array
            /\ m.rxTimeStamp = RxTimeStamp(OnlyGroup(rec, RxBits(ctl))).array
            /\ m.anchorLocation
                 = AnchorLocation(OnlyGroup(rec, AnchorBits(ctl))).array
            /\ m.activeRangingRound
                 = ActiveRangingRound(OnlyGroup(rec, RoundBits(ctl) * 128)).array

C7_Witness ==
  /\ DlTdoaAssembled
  /\ InCount = 1
  /\ InRecord(1).message_control = 460
  /\ Len(calls) = 1
  /\ managed.measures[1].txTimeStamp.isNull
  /\ IsArrayOfLen(managed.measures[1].rxTimeStamp, 8)
  /\ IsArrayOfLen(managed.measures[1].anchorLocation, 10)
  /\ IsArrayOfLen(managed.measures[1].activeRangingRound, 3)

(***************************************************************************)
(* C8: in every record that carries a reserved field (two-way records of   *)
(* both copies, TDoA records of the active copy) the address and the       *)
(* reserved field have the lengths (2, 12) or (8, 6), and (2, 12) exactly  *)
(* when the address-mode flag is SHORT, for every value of the flag.       *)
(***************************************************************************)
C8_AddressAndReserved ==
  (/\ pc = "returned"
   /\ arg.op = "onRangeDataNotificationReceived"
   /\ ~managed.isNull)
  => \A i \in 1..Len(managed.measures) :
       LET m == managed.measures[i]
       IN m.class \in {"UwbTwoWayMeasurement", "UwbTDoAMeasurement"} =>
            LET lens == <<Len(m.macAddress.elems), Len(m.rfu.elems)>>
            IN /\ lens \in {<<2, 12>>, <<8, 6>>}
               /\ lens = <<2, 12>>
                    <=> arg.ntf.mac_addr_mode_indicator = SHORT_MAC_ADDRESS

C8_Witness ==
  /\ pc = "returned"
  /\ arg.op = "onRangeDataNotificationReceived"
  /\ copy = "jni"
  /\ arg.ntf.mac_addr_mode_indicator = 2
  /\ ~managed.isNull
  /\ Len(managed.measures) = 1
  /\ managed.measures[1].class = "UwbTDoAMeasurement"
  /\ Len(managed.measures[1].macAddress.elems) = 8
  /\ Len(managed.measures[1].rfu.elems) = 6

(***************************************************************************)
(* C9: a multicast list update whose controlee count is above the maximum  *)
(* returns with nothing constructed and no callback made, in both copies.  *)
(***************************************************************************)
C9_OverlongListRejected ==
  (/\ pc = "returned"
   /\ arg.op = "onMulticastListUpdateNotificationReceived"
   /\ ~arg.ntf.isNull
   /\ arg.ntf.no_of_controlees > MAX_NUM_CONTROLLEES)
  => nNew = 0 /\ calls = <<>>

(***************************************************************************)
(* C10: raw UCI, vendor UCI and vendor device info called with a null      *)
(* payload and a nonzero length, and raw UCI and vendor device info called *)
(* with length 0, construct no array and make no callback.                 *)
(***************************************************************************)
C10_BadPayloadRejected ==
  (/\ pc = "returned"
   /\ arg.op \in {"onRawUciNotificationReceived",
                  "onVendorUciNotificationReceived", "onVendorDeviceInfo"}
   /\ \/ arg.data.isNull /\ arg.length > 0
      \/ arg.op # "onVendorUciNotificationReceived" /\ arg.length = 0)
  => nNew = 0 /\ calls = <<>>

(***************************************************************************)
(* C11: a notification entry point called when the env of the calling      *)
(* thread cannot be obtained (before doLoadSymbols, or on a thread that    *)
(* cannot be attached) returns, having constructed nothing and called no   *)
(* listener method.                                                        *)
(***************************************************************************)
C11_NoEnvNoEffect ==
  (NotificationEnded /\ ~ScopedJniEnv(mVm, arg.rt))
  => /\ outcome = "returned"
     /\ nNew = 0
     /\ calls = <<>>

(***************************************************************************)
(* C12: a notification entry point whose callback is unresolved calls no   *)
(* listener method, returns normally and records a trace that tells the    *)
(* skipped delivery from a delivery.                                       *)
(***************************************************************************)
\* the error traces an entry point writes when it does not deliver
NotDeliveredTraces ==
  {"E: jni env is null",
   "E: rangeDataNtf MID is NULL", "E: onRawUciNotificationReceived MID is NULL",
   "E: sessionStatusNtf MID is null", "E: deviceStatusNtf MID is null",
   "E: genericErrorStatusNtf MID is null",
   "E: MulticastUpdateListNtf MID is null", "E: BlikDataTxNtf MID is null",
   "E: onVendorUciNotificationReceived MID is NULL",
   "E: onVendorDeviceInfo MID is NULL",
   "E: multicast_list_ntf is null", "E: no Of Controlees exceeded max allowed",
   "E: length is zero or data is NULL, skip sending notifications",
   "E: data len is Zero or vendorDevice info  is NULL"}

C12_UnresolvedIsSignalled ==
  (NotificationEnded /\ ~mMethods[MethodOf(arg.op)])
  => /\ outcome = "returned"
     /\ calls = <<>>
     /\ \E i \in DOMAIN logs : logs[i] \in NotDeliveredTraces

(***************************************************************************)
(* C13: an exception the listener throws is cleared before the entry point *)
(* returns, so none is pending in the calling thread and the caller is     *)
(* resumed; and the callback of a later notification is invoked whether or *)
(* not the callback of an earlier notification threw.                      *)
(***************************************************************************)
\* the listener invocation of the call that has just ended is on record
DeliveredNow ==
  \E i \in DOMAIN calls :
    calls[i].nth = nth /\ calls[i].method = MethodOf(arg.op)

\* the listener threw during an earlier call of the sequence
ThrewBefore == \E i \in DOMAIN calls : calls[i].threw /\ calls[i].nth < nth

C13_ExceptionCleared ==
  /\ ~pending
  /\ (NotificationEnded /\ DeliveredNow) => outcome = "returned"
  /\ (/\ NotificationEnded
      /\ ThrewBefore
      /\ ScopedJniEnv(mVm, arg.rt)
      /\ mMethods[MethodOf(arg.op)]
      /\ ValidArguments)
     => outcome = "returned" /\ DeliveredNow

C13_Witness ==
  /\ NotificationEnded
  /\ outcome = "returned"
  /\ ~pending
  /\ \E i, j \in DOMAIN calls :
       /\ calls[i].threw
       /\ calls[i].nth = nth - 1
       /\ calls[j].nth = nth
       /\ calls[j].threw

(***************************************************************************)
(* C14: every call of a notification entry point, in every registration    *)
(* state and with every input, ends by returning to the native caller.     *)
(***************************************************************************)
C14_AlwaysReturns == NotificationEnded => outcome = "returned"

(***************************************************************************)
(* C15: a delivered ranging notification of type two-way, downlink-TDoA or *)
(* one-way-with-AoA carries as many measurement records as its count says, *)
(* and record i carries the address of input record i.                     *)
(***************************************************************************)
\* a ranging notification has just been handed to the listener
RangingDelivered ==
  /\ pc = "returned"
  /\ arg.op = "onRangeDataNotificationReceived"
  /\ Len(calls) = 1
  /\ ~managed.isNull

C15_RecordCount ==
  (/\ RangingDelivered
   /\ arg.ntf.ranging_measure_type \in
        {MEASUREMENT_TYPE_TWOWAY, MEASUREMENT_TYPE_DLTDOA,
         MEASUREMENT_TYPE_OWR_WITH_AOA})
  => /\ Len(managed.measures) = InCount
     /\ \A i \in 1..InCount :
          managed.measures[i].macAddress
            = ByteArrayOf(InRecord(i).id, 0,
                          MacAddressLen(arg.ntf.mac_addr_mode_indicator))

(***************************************************************************)
(* C16: whenever a ranging notification reaches the listener, exactly one  *)
(* callback carries it, and its sequence counter, session id, rcr          *)
(* indication, ranging interval, measurement-type tag, address-mode flag   *)
(* and count equal the fields of the inbound struct.                       *)
(***************************************************************************)
C16_NotificationFields ==
  (NotificationEnded /\ arg.op = "onRangeDataNotificationReceived"
   /\ calls # <<>>)
  => /\ Len(calls) = 1
     /\ calls[1].method = MethodOf(arg.op)
     /\ calls[1].args = <<managed>>
     /\ ~managed.isNull
     /\ managed.seq_counter = arg.ntf.seq_counter
     /\ managed.session_id = arg.ntf.session_id
     /\ managed.rcr_indication = arg.ntf.rcr_indication
     /\ managed.curr_range_interval = arg.ntf.curr_range_interval
     /\ managed.ranging_measure_type = arg.ntf.ranging_measure_type
     /\ managed.mac_addr_mode_indicator = arg.ntf.mac_addr_mode_indicator
     /\ managed.no_of_measurements = arg.ntf.no_of_measurements

(***************************************************************************)
(* C17: a vendor UCI notification handed over with the environment         *)
(* available and the vendor callback resolved reaches the listener exactly *)
(* once with its group id and opcode; its payload is a byte array, never   *)
(* null, of exactly the given length - empty for length 0 - holding the    *)
(* input bytes.                                                            *)
(***************************************************************************)
C17_VendorPayload ==
  (/\ NotificationEnded
   /\ arg.op = "onVendorUciNotificationReceived"
   /\ ScopedJniEnv(mVm, arg.rt)
   /\ mMethods["mOnVendorUciNotificationReceived"]
   /\ ValidArguments)
  => /\ outcome = "returned"
     /\ Len(calls) = 1
     /\ calls[1].method = "mOnVendorUciNotificationReceived"
     /\ calls[1].object = mObject
     /\ Len(calls[1].args) = 3
     /\ calls[1].args[1] = arg.gid
     /\ calls[1].args[2] = arg.oid
     /\ ~calls[1].args[3].isNull
     /\ Len(calls[1].args[3].elems) = arg.length
     /\ arg.length > 0
        => calls[1].args[3].elems = NativeBytes(arg.data.seed, 0, arg.length)

\* an empty vendor payload has been handed to the listener
C17_Witness ==
  /\ NotificationEnded
  /\ arg.op = "onVendorUciNotificationReceived"
  /\ arg.length = 0
  /\ Len(calls) = 1
  /\ calls[1].args = <<arg.gid, arg.oid, [isNull |-> FALSE, elems |-> <<>>]>>

(***************************************************************************)
(* C18: an accepted multicast list update of n controlees, 0 <= n <= the   *)
(* maximum, reaches the listener with the inbound session id,              *)
(* remaining-list count and n, and with parallel lists of exactly n        *)
(* elements each, element i equal to element i of the inbound list; n = 0  *)
(* is delivered with empty lists.                                          *)
(***************************************************************************)
\* a multicast list update within the maximum was handed over with the
\* environment available and the callback resolved
MulticastAccepted ==
  /\ NotificationEnded
  /\ arg.op = "onMulticastListUpdateNotificationReceived"
  /\ ScopedJniEnv(mVm, arg.rt)
  /\ mMethods["mOnMulticastListUpdateNotificationReceived"]
  /\ ValidArguments

\* the delivered entity carries list number field of the inbound struct
\* under the name list
CarriesList(list, field) ==
  /\ list \in DOMAIN managed
  /\ ~managed[list].isNull
  /\ Len(managed[list].elems) = arg.ntf.no_of_controlees
  /\ \A i \in 1..arg.ntf.no_of_controlees :
       managed[list].elems[i] = NativeElem(arg.ntf.seed, field, i)

\* the entity is delivered once and carries the three scalar fields
MulticastDelivered ==
  /\ outcome = "returned"
  /\ Len(calls) = 1
  /\ calls[1].method = "mOnMulticastListUpdateNotificationReceived"
  /\ calls[1].args = <<managed>>
  /\ ~managed.isNull
  /\ managed.session_id = arg.ntf.session_id
  /\ managed.remaining_list = arg.ntf.remaining_list
  /\ managed.no_of_controlees = arg.ntf.no_of_controlees

\* C18 as stated: three lists - controlee addresses, sub-session ids, status
\* codes - in either copy
C18_ThreeLists ==
  MulticastAccepted
  => /\ MulticastDelivered
     /\ CarriesList("controleeMacAddressArray", 0)
     /\ CarriesList("subSessionIdArray", 1)
     /\ CarriesList("statusArray", 2)

\* C18 amended: the sub-session ids and the status codes in either copy, the
\* controlee addresses in the expanded copy only; the entity of the active
\* copy has no list of controlee addresses
C18_ParallelLists ==
  MulticastAccepted
  => /\ MulticastDelivered
     /\ CarriesList("subSessionIdArray", 1)
     /\ CarriesList("statusArray", 2)
     /\ copy = "jni_unused" => CarriesList("controleeMacAddressArray", 0)
     /\ copy = "jni" => "controleeMacAddressArray" \notin DOMAIN managed

\* the active copy has delivered an update of the maximum number of
\* controlees
C18_Witness ==
  /\ MulticastAccepted
  /\ copy = "jni"
  /\ arg.ntf.no_of_controlees = MAX_NUM_CONTROLLEES
  /\ Len(calls) = 1
  /\ Len(calls[1].args[1].statusArray.elems) = MAX_NUM_CONTROLLEES

\* an update of no controlees has been delivered with three empty lists
MulticastEmptyDelivered ==
  /\ MulticastAccepted
  /\ copy = "jni_unused"
  /\ arg.ntf.no_of_controlees = 0
  /\ Len(calls) = 1
  /\ calls[1].args[1].controleeMacAddressArray.elems = <<>>
  /\ calls[1].args[1].subSessionIdArray.elems = <<>>
  /\ calls[1].args[1].statusArray.elems = <<>>

(***************************************************************************)
(* C19: registration is one-way: no step - a notification, or a further    *)
(* doLoadSymbols whose class or method lookup fails - takes the listener   *)
(* reference or a callback entry point that is resolved back to            *)
(* unresolved.                                                             *)
(***************************************************************************)
C19_RegistrationOneWay ==
  [][/\ mObject => mObject'
     /\ \A f \in MethodFields : (mObject /\ mMethods[f]) => mMethods'[f]]_vars

(***************************************************************************)
(* C20: a notification is processed synchronously.  The callback of a call *)
(* is made in the step of that call, after the callbacks of every earlier  *)
(* call and at most once; it is made in that step whenever the environment *)
(* is available, the entry point resolved and the arguments well formed;   *)
(* and no step after the return adds a callback.  So the listener sees the *)
(* callbacks of one thread's calls in the order of the calls.              *)
(***************************************************************************)
C20_Synchronous ==
  [][/\ Len(calls') \in {Len(calls), Len(calls) + 1}
     /\ SubSeq(calls', 1, Len(calls)) = calls
     /\ Len(calls') = Len(calls) + 1
        => /\ pc = "idle" /\ NotificationEnded'
           /\ calls'[Len(calls')].nth = nth'
           /\ calls'[Len(calls')].method = MethodOf(arg'.op)
     /\ (/\ NotificationEnded'
         /\ outcome' = "returned"
         /\ ScopedJniEnv(mVm', arg'.rt)
         /\ mMethods'[MethodOf(arg'.op)]
         /\ ValidArguments')
        => Len(calls') = Len(calls) + 1
     /\ pc = "returned" => calls' = calls]_vars

\* the listener has seen the callbacks of three calls of different entry
\* points, in the order of the calls
C20_Witness ==
  /\ NotificationEnded
  /\ Len(calls) = 3
  /\ nth = 4
  /\ calls[1].nth = 2 /\ calls[2].nth = 3 /\ calls[3].nth = 4
  /\ calls[1].method = "mOnSessionStatusNotificationReceived"
  /\ calls[2].method = "mOnRangeDataNotificationReceived"
  /\ calls[3].method = "mOnDeviceStateNotificationReceived"

(***************************************************************************)
(* C21: notification handlers running on several threads after setup write *)
(* no field of the manager, and under every interleaving of their steps    *)
(* each call delivers what its own input and the setup determine.          *)
(***************************************************************************)
\* what a call delivers, from its input and from what doLoadSymbols was
\* given alone
DeterminedBySetup(th) ==
  IF /\ th.rt # "noenv"
     /\ ~Rejected(copy, th.op, th.input)
     /\ MethodOf(th.op) \in LoadedMethods(copy) \ threads[Loader].missing
  THEN <<[method |-> MethodOf(th.op), object |-> TRUE,
          args |-> ThreadArgs(copy, [th EXCEPT !.nullClass = FALSE]),
          threw |-> th.rt = "throws", pending |-> FALSE]>>
  ELSE <<>>

C21_HandlersShareReadOnly ==
  [][\A t \in Notifiers :
       /\ threads'[t] # threads[t] => UNCHANGED mgrVars
       /\ (/\ threads[t].at \in {"env", "mid", "call"}
           /\ threads'[t].at = "done"
           /\ threads[t].settled)
          => threads'[t].out = DeterminedBySetup(threads[t])]_vars

\* after setup, one thread has delivered its notification while another
\* thread stands between its test of the callback entry point and its call
C21_Witness ==
  /\ threads[2].at = "call" /\ threads[2].settled
  /\ threads[3].at = "done" /\ threads[3].settled
  /\ threads[3].out # <<>>
  /\ threads[2].op # threads[3].op

(***************************************************************************)
(* C24: while one doLoadSymbols call interleaves with notification calls   *)
(* on other threads, no listener callback is made on a NULL listener       *)
(* reference and no handler constructs from a class descriptor that is     *)
(* still NULL.                                                             *)
(***************************************************************************)
\* every callback made so far had a listener reference
ListenerNeverNull == \A i \in DOMAIN calls : calls[i].object

\* no call in progress has constructed from a NULL class descriptor
ClassNeverNull ==
  \A t \in Notifiers : threads[t] # Outside => ~threads[t].nullClass

C24_NoNullUseWhileLoading == ListenerNeverNull /\ ClassNeverNull

C23_UnknownTag ==
  (/\ NotificationEnded
   /\ arg.op = "onRangeDataNotificationReceived"
   /\ ScopedJniEnv(mVm, arg.rt))
  => /\ (/\ copy = "jni_unused"
         /\ arg.ntf.ranging_measure_type \notin
              {MEASUREMENT_TYPE_TWOWAY, MEASUREMENT_TYPE_DLTDOA,
               MEASUREMENT_TYPE_OWR_WITH_AOA})
        => /\ outcome = "returned"
           /\ managed.isNull
           /\ calls = <<>>
     /\ (/\ copy = "jni"
         /\ arg.ntf.ranging_measure_type # MEASUREMENT_TYPE_TWOWAY
         /\ mMethods["mOnRangeDataNotificationReceived"])
        => /\ outcome = "returned"
           /\ Len(calls) = 1
           /\ calls[1].args = <<managed>>
           /\ ~managed.isNull
           /\ managed.ctor = "Tdoa"
           /\ Len(managed.measures) = arg.ntf.no_of_measurements
           /\ \A i \in DOMAIN managed.measures :
                managed.measures[i].class = "UwbTDoAMeasurement"

\* the expanded copy, its ranging callback resolved, has returned from a
\* notification with an unknown tag and records without a callback
C23_Witness ==
  /\ NotificationEnded
  /\ arg.op = "onRangeDataNotificationReceived"
  /\ copy = "jni_unused"
  /\ env
  /\ mMethods["mOnRangeDataNotificationReceived"]
  /\ arg.ntf.ranging_measure_type = 255
  /\ arg.ntf.no_of_measurements > 0
  /\ calls = <<>>

\* the active copy has delivered a notification with an unknown tag under
\* the TDoA schema
ActiveUnknownTagDelivered ==
  /\ NotificationEnded
  /\ arg.op = "onRangeDataNotificationReceived"
  /\ copy = "jni"
  /\ arg.ntf.ranging_measure_type = 255
  /\ Len(calls) = 1
  /\ calls[1].args[1].ctor = "Tdoa"
  /\ Len(calls[1].args[1].measures) = MaxMeasurements

(***************************************************************************)
(* C25: on return from a notification entry point no exception is pending  *)
(* on the calling thread, whether a construction or the callback raised it *)
(* and whether the callback entry point is resolved or not.                *)
(***************************************************************************)
C25_NothingPendingOnReturn ==
  (NotificationEnded /\ outcome = "returned") => ~pending

(***************************************************************************)
(* C26: in the expanded copy every delivered ranging notification, of each *)
(* measurement type, carries a null vendor payload exactly when the        *)
(* inbound vendor length is 0, and otherwise a byte array of exactly that  *)
(* length; a zero-length payload is never delivered as an empty array.     *)
(***************************************************************************)
ExpandedRangingDelivered ==
  /\ NotificationEnded
  /\ copy = "jni_unused"
  /\ arg.op = "onRangeDataNotificationReceived"
  /\ outcome = "returned"
  /\ Len(calls) = 1
  /\ calls[1].method = "mOnRangeDataNotificationReceived"

C26_VendorPayloadNullIffEmpty ==
  ExpandedRangingDelivered
  => /\ Len(calls[1].args) = 1
     /\ ~calls[1].args[1].isNull
     /\ (calls[1].args[1].vendorSpecificData.isNull
          <=> arg.ntf.vendor_len = 0)
     /\ (arg.ntf.vendor_len > 0
          => calls[1].args[1].vendorSpecificData.elems
               = NativeBytes(arg.ntf.seed, 8, arg.ntf.vendor_len))
     /\ (arg.ntf.vendor_len > 0
          => Len(calls[1].args[1].vendorSpecificData.elems)
               = arg.ntf.vendor_len)

C26_Witness ==
  /\ ExpandedRangingDelivered
  /\ arg.ntf.ranging_measure_type = MEASUREMENT_TYPE_OWR_WITH_AOA
  /\ arg.ntf.vendor_len = 0
  /\ calls[1].args[1].vendorSpecificData = NullRef

C26_WitnessPresent ==
  /\ ExpandedRangingDelivered
  /\ arg.ntf.ranging_measure_type = MEASUREMENT_TYPE_DLTDOA
  /\ arg.ntf.vendor_len = 2
  /\ Len(calls[1].args[1].vendorSpecificData.elems) = 2

(***************************************************************************)
(* C27: in the active copy every TDoA record is delivered with a null      *)
(* device-info field when device_info_size is 0 and otherwise with exactly *)
(* device_info_size bytes, and likewise the blink payload with             *)
(* blink_payload_size; each field depends on its own size only, not on the *)
(* other field and not on the address mode.                                *)
(***************************************************************************)
ActiveTdoaDelivered ==
  /\ NotificationEnded
  /\ copy = "jni"
  /\ arg.op = "onRangeDataNotificationReceived"
  /\ arg.ntf.ranging_measure_type # MEASUREMENT_TYPE_TWOWAY
  /\ outcome = "returned"
  /\ Len(calls) = 1
  /\ calls[1].method = "mOnRangeDataNotificationReceived"

C27_WitnessOtherWay ==
  /\ ActiveTdoaDelivered
  /\ arg.ntf.mac_addr_mode_indicator = SHORT_MAC_ADDRESS
  /\ InRecord(1).device_info_size = 3
  /\ InRecord(1).blink_payload_size = 0
  /\ Len(calls[1].args[1].measures[1].deviceInfo.elems) = 3
  /\ calls[1].args[1].measures[1].blinkPayloadData.isNull

====
